---- MODULE Spec2Model ----
(***************************************************************************)
(* ReBin Pro backend: the Reasoning Gateway (get_reasoned_decisions behind *)
(* POST /explain), the Detection Gateway (POST /infer), the Narration      *)
(* Composer and the Speech Gateway behind the /chatbot routes.             *)
(*                                                                         *)
(* A downstream HTTP reply is a record describing what the handler can     *)
(* observe of it: whether the transport call returned, the status code,    *)
(* whether the body is JSON, and the shape of the JSON value.              *)
(***************************************************************************)
EXTENDS Integers, Sequences, FiniteSets, TLC

VARIABLES
    apiKeySet,       \* OPENROUTER_API_KEY is non-empty (settings, fixed at import)
    explainReq,      \* labels of the ExplainRequest being served (payload.items)
    reasoningReply,  \* what the reasoning endpoint answered to the one outbound call
    explainResp,     \* what POST /explain answered to the client
    inferReq,        \* the UploadFile handed to POST /infer
    cvReply,         \* what the detection endpoint answered
    inferResp,       \* what POST /infer answered to the client
    outbound,        \* HTTP requests sent to each downstream endpoint by the invocation served
    ttsKeySet,       \* ELEVENLABS_API_KEY is non-empty (settings, fixed at import)
    speakReq,        \* the ChatbotRequest handed to POST /chatbot/speak
    narration,       \* the texts composed while serving the request
    ttsCall,         \* the arguments get_tts_base64 was invoked with
    ttsReply,        \* what the text-to-speech endpoint answered
    ttsResult,       \* what get_tts_base64 returned
    speakResp,       \* what POST /chatbot/speak answered to the client
    catalogResp,     \* what GET /chatbot/voices or /chatbot/avatars answered
    fnIn,            \* argument of the pure function under check
    fnOut,           \* its result
    event,           \* POST /event: position of the handler, its request and its answer
    sortEvents,      \* rows of the store's sort_events table, oldest first
    policies,        \* rows of the store's policies table, by ZIP
    seedRuns,        \* the runs of ensure_seed_policies: position, ZIPs found, rows written
    profile,         \* GET /users/profile/{user_id}: request, store reply, answer
    board,           \* GET /analytics/leaderboard: request, rows of the window, answer
    trends           \* GET /analytics/trends: request, rows of the two queries, answer

explainVars == <<apiKeySet, explainReq, reasoningReply, explainResp>>
inferVars == <<inferReq, cvReply, inferResp>>
speechVars == <<ttsCall, ttsReply, ttsResult>>
chatVars == <<speakReq, narration, speechVars, speakResp, catalogResp>>
fnVars == <<fnIn, fnOut>>
eventVars == <<event, sortEvents>>
seedVars == <<policies, seedRuns>>
storeVars == <<eventVars, seedVars, profile, board, trends>>
vars == <<apiKeySet, explainReq, reasoningReply, explainResp, inferReq, cvReply, inferResp,
          outbound, ttsKeySet, speakReq, narration, ttsCall, ttsReply, ttsResult,
          speakResp, catalogResp, fnIn, fnOut, event, sortEvents, policies, seedRuns,
          profile, board, trends>>

(***************************************************************************)
(* Bounds of the model.                                                    *)
(***************************************************************************)
MaxItems == 2      \* labels in one ExplainRequest
MaxReply == 2      \* elements in the list the reasoning model returns
MaxObjects == 2    \* elements in the detector's objects list

RECURSIVE SeqsUpTo(_, _)
SeqsUpTo(S, n) ==
    IF n = 0 THEN {<<>>}
    ELSE LET shorter == SeqsUpTo(S, n - 1)
         IN  shorter \cup {Append(s, x) : s \in {t \in shorter : Len(t) = n - 1}, x \in S}

(***************************************************************************)
(* JSON values as Python sees them after json.loads / resp.json().         *)
(* A scalar held under a key of a mapping: k is its kind, s its text when  *)
(* it is a string, n its value when it is a number (confidences are kept   *)
(* in hundredths: 92 is 0.92).                                             *)
(***************************************************************************)
Absent == [k |-> "absent", s |-> "", n |-> 0]
JStr(s) == [k |-> "str", s |-> s, n |-> 0]
JNum(n) == [k |-> "num", s |-> "", n |-> n]
JNull == [k |-> "null", s |-> "", n |-> 0]

DigitText == <<"0", "1", "2", "3", "4", "5", "6", "7", "8", "9">>

\* Python's str(v) of a JSON scalar
PyStr(v) ==
    CASE v.k = "str" -> v.s
      [] v.k = "num" -> DigitText[v.n + 1]
      [] v.k = "null" -> "None"

\* obj.get(key, default) followed by str(): the default is used only when the key is absent
StrGet(obj, key, default) ==
    IF obj[key].k = "absent" THEN default ELSE PyStr(obj[key])

(***************************************************************************)
(* Outcome of a piece of Python code: a normal return or a raised          *)
(* exception.  exc = "none" is a return; an HTTPException carries the      *)
(* status code and the detail's error and message.                         *)
(***************************************************************************)
Returned(items) ==
    [exc |-> "none", status |-> 200, error |-> "", message |-> "", items |-> items]
HTTPException(status, error, message) ==
    [exc |-> "HTTPException", status |-> status, error |-> error, message |-> message, items |-> <<>>]
Raised(exc) ==
    [exc |-> exc, status |-> 0, error |-> "", message |-> "", items |-> <<>>]
NoResponse ==
    [exc |-> "pending", status |-> 0, error |-> "", message |-> "", items |-> <<>>]

(***************************************************************************)
(* schemas.py                                                              *)
(***************************************************************************)
Bins == {"recycling", "compost", "trash"}

\* ItemDecision: four str fields, the bin field carries a description only
ItemDecision(label, bin, explanation, eco_tip) ==
    [label |-> label, bin |-> bin, explanation |-> explanation, eco_tip |-> eco_tip]

(***************************************************************************)
(* Reasoning Gateway: the reply of the reasoning endpoint.                 *)
(***************************************************************************)
\* an element of the list the model returned
DictElem(label, bin, explanation, eco_tip) ==
    [t |-> "dict", label |-> label, bin |-> bin, explanation |-> explanation, eco_tip |-> eco_tip]
NonDictElem(t) ==
    [t |-> t, label |-> Absent, bin |-> Absent, explanation |-> Absent, eco_tip |-> Absent]

Labels == {"cup", "lid"}

ReasonElems ==
    { DictElem(JStr("cup"), JStr("recycling"), JStr("rinse it"), JStr("reuse it")),
      DictElem(JStr("lid"), JStr("compost"), JStr("paper"), Absent),
      DictElem(JStr("lid"), JStr("landfill"), JStr("mixed"), JStr("avoid")),
      DictElem(JStr("cup"), Absent, Absent, Absent),
      DictElem(JNum(7), JNull, JStr("odd"), JNull),
      NonDictElem("str"),
      NonDictElem("null") }

\* transport: the post returned a response or raised
\* json: resp.json() succeeds; data: the type of the decoded body
\* choices: "absent" | "empty" | "filled"; message: choices[0] has message.content
\* content: "text" (a string that is not JSON) | "null" | "json"
\* parsed: the type of json.loads(content); elems: its elements when it is a list
Reply(transport, status, json, choices, message, content, parsed, elems) ==
    [transport |-> transport, status |-> status, json |-> json, choices |-> choices,
     message |-> message, content |-> content, parsed |-> parsed, elems |-> elems]

NoCall == Reply("none", 0, FALSE, "absent", FALSE, "null", "none", <<>>)

ReasoningStatuses == {401, 429, 500, 503, 404}

ReasoningReplies ==
    { Reply("error", 0, FALSE, "absent", FALSE, "null", "none", <<>>) }
    \cup { Reply("ok", s, FALSE, "absent", FALSE, "null", "none", <<>>) : s \in ReasoningStatuses }
    \cup { Reply("ok", 200, FALSE, "absent", FALSE, "null", "none", <<>>),
           Reply("ok", 200, TRUE, "absent", FALSE, "null", "none", <<>>),
           Reply("ok", 200, TRUE, "empty", FALSE, "null", "none", <<>>),
           Reply("ok", 200, TRUE, "filled", FALSE, "null", "none", <<>>),
           Reply("ok", 200, TRUE, "filled", TRUE, "null", "none", <<>>),
           Reply("ok", 200, TRUE, "filled", TRUE, "text", "none", <<>>),
           Reply("ok", 200, TRUE, "filled", TRUE, "json", "dict", <<>>) }
    \cup { Reply("ok", 200, TRUE, "filled", TRUE, "json", "list", es) :
             es \in SeqsUpTo(ReasonElems, MaxReply) }

(***************************************************************************)
(* get_reasoned_decisions                                                  *)
(***************************************************************************)
FallbackDecision ==
    ItemDecision("unknown", "trash", "Unable to determine proper disposal method",
                 "Please check local recycling guidelines")

\* the body of the for loop: a non-mapping is skipped, a mapping appended
\* with each field read by obj.get(key, "") and converted by str()
DecisionOf(obj) ==
    ItemDecision(StrGet(obj, "label", ""), StrGet(obj, "bin", ""),
                 StrGet(obj, "explanation", ""), StrGet(obj, "eco_tip", ""))

\* the loop with each decision put in front of the earlier ones
RECURSIVE ParseDecisionsReversed(_)
ParseDecisionsReversed(parsed) ==
    IF parsed = <<>> THEN <<>>
    ELSE IF Head(parsed).t # "dict" THEN ParseDecisionsReversed(Tail(parsed))
    ELSE ParseDecisionsReversed(Tail(parsed)) \o <<DecisionOf(Head(parsed))>>

\* the loop with break in place of continue
RECURSIVE ParseDecisionsBreak(_)
ParseDecisionsBreak(parsed) ==
    IF parsed = <<>> THEN <<>>
    ELSE IF Head(parsed).t # "dict" THEN <<>>
    ELSE <<DecisionOf(Head(parsed))>> \o ParseDecisionsBreak(Tail(parsed))

RECURSIVE ParseDecisions(_)
ParseDecisions(parsed) ==
    IF parsed = <<>> THEN <<>>
    ELSE IF Head(parsed).t # "dict" THEN ParseDecisions(Tail(parsed))
    ELSE <<DecisionOf(Head(parsed))>> \o ParseDecisions(Tail(parsed))

\* the empty result returned as it is
WithoutFallback(results) == results

\* if not results: results = [fallback]
WithFallback(results) ==
    IF results = <<>> THEN <<FallbackDecision>> ELSE results

\* the statements inside the second try block
ParseBody(reply) ==
    IF reply.choices # "filled"
    THEN HTTPException(502, "reasoning_error", "Invalid response structure from reasoning service")
    ELSE IF ~reply.message THEN Raised("KeyError")
    ELSE IF reply.content = "null" THEN Raised("TypeError")
    ELSE IF reply.content = "text" THEN Raised("JSONDecodeError")
    ELSE IF reply.parsed # "list"
    THEN HTTPException(502, "parse_error", "Invalid response format from reasoning service")
    ELSE Returned(WithFallback(ParseDecisions(reply.elems)))

\* a decode error answered with the fallback decision
ParseHandlersLenient(outcome) ==
    IF outcome.exc = "none" THEN outcome
    ELSE IF outcome.exc = "JSONDecodeError" THEN Returned(<<FallbackDecision>>)
    ELSE HTTPException(502, "parse_error", "Bad reasoning response")

\* the except clauses of the second try block
ParseHandlers(outcome) ==
    IF outcome.exc = "none" THEN outcome
    ELSE IF outcome.exc = "JSONDecodeError"
    THEN HTTPException(502, "parse_error", "Invalid JSON response from reasoning service")
    ELSE HTTPException(502, "parse_error", "Bad reasoning response")

\* the chain without its 429 branch
StatusErrorNo429(status) ==
    IF status = 401
    THEN HTTPException(500, "config_error", "Invalid API key for reasoning service")
    ELSE IF status = 500
    THEN HTTPException(502, "reasoning_error", "Reasoning service temporarily unavailable")
    ELSE HTTPException(502, "reasoning_error", "Reasoning API failed")

\* the if/elif chain on resp.status_code
StatusError(status) ==
    IF status = 401
    THEN HTTPException(500, "config_error", "Invalid API key for reasoning service")
    ELSE IF status = 429
    THEN HTTPException(429, "rate_limit", "Too many requests to reasoning service")
    ELSE IF status = 500
    THEN HTTPException(502, "reasoning_error", "Reasoning service temporarily unavailable")
    ELSE HTTPException(502, "reasoning_error", "Reasoning API failed")

\* everything after the key check, given the outcome of the outbound call
AfterPost(reply) ==
    IF reply.transport = "error"
    THEN HTTPException(503, "reasoning_error", "Reasoning service unavailable")
    ELSE IF reply.status # 200 THEN StatusError(reply.status)
    ELSE IF ~reply.json
    THEN HTTPException(502, "reasoning_error", "Invalid response from reasoning service")
    ELSE ParseHandlers(ParseBody(reply))

MissingKey == HTTPException(500, "config", "OPENROUTER_API_KEY missing")

\* routes/explain.py: an HTTPException is re-raised as it is, anything else
\* becomes 500 server_error, a return becomes the 200 ExplainResponse
ExplainOutcome(outcome) ==
    IF outcome.exc \in {"none", "HTTPException"} THEN outcome
    ELSE HTTPException(500, "server_error", outcome.exc)

(***************************************************************************)
(* schemas.py: ItemDetection, confidence: float, ge=0.0, le=1.0            *)
(***************************************************************************)
\* the outcome of evaluating one expression: a value or a raised exception
Value(v) == [exc |-> "none", v |-> v]
Throws(exc) == [exc |-> exc, v |-> [label |-> "", confidence |-> 0]]

\* the model without its ge/le constraints
ItemDetectionUnbounded(label, confidence) ==
    Value([label |-> label, confidence |-> confidence])

\* pydantic's ValidationError is a ValueError
ItemDetection(label, confidence) ==
    IF confidence >= 0 /\ confidence <= 100
    THEN Value([label |-> label, confidence |-> confidence])
    ELSE Throws("ValueError")

(***************************************************************************)
(* Detection Gateway: the reply of the detection endpoint.                 *)
(***************************************************************************)
DetObject(label, confidence) == [t |-> "dict", label |-> label, confidence |-> confidence]
NonObject(t) == [t |-> t, label |-> Absent, confidence |-> Absent]

DetElems ==
    { DetObject(JStr("plastic cup"), JNum(92)),
      DetObject(JStr("paper lid"), JNum(81)),
      DetObject(JStr("can"), JStr("bad")),
      DetObject(JStr("can"), JStr("0.5")),
      DetObject(Absent, JNum(50)),
      DetObject(JStr("bag"), Absent),
      DetObject(JStr("bag"), JNum(150)),
      DetObject(JNum(3), JNull),
      NonObject("str"),
      NonObject("null") }

\* data: the type of resp.json(); objects: "absent" | "list" | "other"
CvReply(transport, status, json, data, objects, elems) ==
    [transport |-> transport, status |-> status, json |-> json, data |-> data,
     objects |-> objects, elems |-> elems]

NoCvCall == CvReply("none", 0, FALSE, "none", "absent", <<>>)

CvStatuses == {503, 400, 500, 404}

CvReplies ==
    { CvReply("error", 0, FALSE, "none", "absent", <<>>) }
    \cup { CvReply("ok", s, FALSE, "none", "absent", <<>>) : s \in CvStatuses }
    \cup { CvReply("ok", 200, FALSE, "none", "absent", <<>>),
           CvReply("ok", 200, TRUE, "list", "absent", <<>>),
           CvReply("ok", 200, TRUE, "dict", "absent", <<>>),
           CvReply("ok", 200, TRUE, "dict", "other", <<>>) }
    \cup { CvReply("ok", 200, TRUE, "dict", "list", es) :
             es \in SeqsUpTo(DetElems, MaxObjects) }

(***************************************************************************)
(* routes/infer.py                                                         *)
(***************************************************************************)
MAX_FILE_SIZE == 10 * 1024 * 1024

ImageTypes == {"image/jpeg"}

\* content_type "" stands for a missing content type
Uploads ==
    [filename : {"", "a.jpg"},
     content_type : {"", "text/plain"} \cup ImageTypes,
     size : {0, 1, MAX_FILE_SIZE, MAX_FILE_SIZE + 1}]

\* the checks without the one on the size of the payload
ValidateUploadNoSize(file) ==
    IF file.filename = ""
    THEN HTTPException(400, "validation_error", "No filename provided")
    ELSE IF file.content_type = "" \/ file.content_type \notin ImageTypes
    THEN HTTPException(400, "validation_error", "File must be an image")
    ELSE IF file.size = 0
    THEN HTTPException(400, "validation_error", "Empty image file")
    ELSE Returned(<<>>)

\* the checks made before the outbound call, in the order of the code
ValidateUpload(file) ==
    IF file.filename = ""
    THEN HTTPException(400, "validation_error", "No filename provided")
    ELSE IF file.content_type = "" \/ file.content_type \notin ImageTypes
    THEN HTTPException(400, "validation_error", "File must be an image")
    ELSE IF file.size > MAX_FILE_SIZE
    THEN HTTPException(413, "validation_error", "Image file too large (max 10MB)")
    ELSE IF file.size = 0
    THEN HTTPException(400, "validation_error", "Empty image file")
    ELSE Returned(<<>>)

\* the strings float() accepts, with their value in hundredths
FloatText == ("0.5" :> 50)

\* Python's float(v) of a JSON scalar
PyFloat(v) ==
    CASE v.k = "num" -> Value(v.n)
      [] v.k = "str" -> IF v.s \in DOMAIN FloatText THEN Value(FloatText[v.s])
                        ELSE Throws("ValueError")
      [] v.k = "null" -> Throws("TypeError")

\* ItemDetection(label=str(obj.get("label", "unknown")),
\*               confidence=float(obj.get("confidence", 0.0)))
DetectionOf(obj) ==
    IF obj.t # "dict" THEN Throws("AttributeError")
    ELSE LET label == StrGet(obj, "label", "unknown")
             conf == IF obj.confidence.k = "absent" THEN Value(0) ELSE PyFloat(obj.confidence)
         IN  IF conf.exc # "none" THEN Throws(conf.exc)
             ELSE ItemDetection(label, conf.v)

\* except (ValueError, TypeError): continue
Skipped(exc) == exc \in {"ValueError", "TypeError"}

\* the for loop over objects: an exception the except clause does not name
\* leaves the loop
RECURSIVE DetectLoop(_)
DetectLoop(objects) ==
    IF objects = <<>> THEN Returned(<<>>)
    ELSE LET d == DetectionOf(Head(objects))
             rest == DetectLoop(Tail(objects))
         IN  IF d.exc # "none" /\ ~Skipped(d.exc) THEN Raised(d.exc)
             ELSE IF rest.exc # "none" THEN rest
             ELSE IF d.exc # "none" THEN rest
             ELSE Returned(<<d.v>> \o rest.items)

\* the if/elif chain on resp.status_code
CvStatusError(status) ==
    IF status = 503
    THEN HTTPException(503, "service_unavailable", "Computer vision service is temporarily unavailable")
    ELSE IF status = 400
    THEN HTTPException(400, "validation_error", "Invalid image format or size")
    ELSE HTTPException(502, "cv_error", "Computer vision service failed")

\* the statements of the try block from the outbound call on
InferBody(reply) ==
    IF reply.transport = "error" THEN Raised("TransportError")
    ELSE IF reply.status # 200 THEN CvStatusError(reply.status)
    ELSE IF ~reply.json
    THEN HTTPException(502, "cv_error", "Invalid response from computer vision service")
    ELSE IF reply.data # "dict" THEN Raised("AttributeError")
    ELSE IF reply.objects = "absent" THEN Returned(<<>>)
    ELSE IF reply.objects # "list"
    THEN HTTPException(502, "cv_error", "Invalid response format from computer vision service")
    ELSE DetectLoop(reply.elems)

\* except HTTPException: raise / except Exception: 500 server_error
InferHandlers(outcome) ==
    IF outcome.exc \in {"none", "HTTPException"} THEN outcome
    ELSE HTTPException(500, "server_error", "Internal server error during image processing")

(***************************************************************************)
(* Text.  A Python string is a sequence of pieces: a run is one character  *)
(* repeated n times, a lit is the first n characters of a word that holds  *)
(* no whitespace and none of the characters sanitize_text removes.         *)
(***************************************************************************)
Run(c, n) == [kind |-> "run", s |-> c, n |-> n]
Word(s) == [kind |-> "lit", s |-> s, n |-> Len(s)]
\* a symbol outside ASCII that is n characters of the source file
Sym(name, n) == [kind |-> "lit", s |-> name, n |-> n]

Space == Run(" ", 1)

\* a phrase of the source written piece by piece: a blank and each of the
\* characters < > " ' stand alone, everything else is a word
Phrase(pieces) ==
    [i \in DOMAIN pieces |->
        IF pieces[i] \in {" ", "<", ">", "\"", "'"} THEN Run(pieces[i], 1)
        ELSE Word(pieces[i])]

\* the two halves of a text of two pieces or more
FirstHalf(t) == SubSeq(t, 1, Len(t) \div 2)
SecondHalf(t) == SubSeq(t, (Len(t) \div 2) + 1, Len(t))

\* len(text)
RECURSIVE TextLen(_)
TextLen(t) ==
    IF t = <<>> THEN 0
    ELSE IF Len(t) = 1 THEN t[1].n
    ELSE TextLen(FirstHalf(t)) + TextLen(SecondHalf(t))

\* two texts put together, the runs of one character that meet made one run
Meet(a, b) ==
    IF a = <<>> THEN b
    ELSE IF b = <<>> THEN a
    ELSE LET x == a[Len(a)]
             y == b[1]
         IN  IF x.kind = "run" /\ y.kind = "run" /\ x.s = y.s
             THEN SubSeq(a, 1, Len(a) - 1) \o <<Run(x.s, x.n + y.n)>> \o Tail(b)
             ELSE a \o b

\* the same string with adjacent runs of one character merged
RECURSIVE Canon(_)
Canon(t) ==
    IF Len(t) <= 1 THEN t
    ELSE Meet(Canon(FirstHalf(t)), Canon(SecondHalf(t)))

(***************************************************************************)
(* routes/chatbot.py: sanitize_text                                        *)
(***************************************************************************)
SANITIZE_LIMIT == 1000

IsBanned(piece) == piece.kind = "run" /\ piece.s \in {"<", ">", "\"", "'"}
IsBlank(piece) == piece.kind = "run" /\ piece.s = " "

\* re.sub(r'[<>"\']', '', text)
RemoveBanned(t) == SelectSeq(t, LAMBDA piece : ~IsBanned(piece))

\* text[:limit]
RECURSIVE Take(_, _)
Take(t, limit) ==
    IF t = <<>> \/ limit <= 0 THEN <<>>
    ELSE IF Len(t) = 1
         THEN IF t[1].n <= limit THEN t ELSE <<[t[1] EXCEPT !.n = limit]>>
    ELSE LET before == TextLen(FirstHalf(t))
         IN  IF before >= limit THEN Take(FirstHalf(t), limit)
             ELSE FirstHalf(t) \o Take(SecondHalf(t), limit - before)

\* text.strip()
RECURSIVE LStrip(_)
LStrip(t) == IF t # <<>> /\ IsBlank(Head(t)) THEN LStrip(Tail(t)) ELSE t
RECURSIVE RStrip(_)
RStrip(t) ==
    IF t # <<>> /\ IsBlank(t[Len(t)]) THEN RStrip(SubSeq(t, 1, Len(t) - 1)) ELSE t
Strip(t) == RStrip(LStrip(t))

\* the three statements in the other order: strip, then cut
SanitizeStripFirst(text) == Canon(Take(Strip(RemoveBanned(text)), SANITIZE_LIMIT))

\* the function without the removal of the four characters
SanitizeKeepsChars(text) == Canon(Strip(Take(text, SANITIZE_LIMIT)))

sanitize_text(text) == Canon(Strip(Take(RemoveBanned(text), SANITIZE_LIMIT)))

(***************************************************************************)
(* routes/chatbot.py: generate_conversational_text, generate_fallback_text *)
(* A decision here holds its label, explanation and eco_tip as text and    *)
(* its bin as a plain word.                                                *)
(***************************************************************************)
RECURSIVE Join(_, _)
Join(parts, sep) ==
    IF parts = <<>> THEN <<>>
    ELSE IF Len(parts) = 1 THEN parts[1]
    ELSE parts[1] \o sep \o Join(Tail(parts), sep)

\* decision.bin.replace("_", " ").title() of the bins that are not one of the three
BinTitle == ("landfill" :> <<"Landfill">>) @@ ("" :> <<>>)

\* bin_name as the if/elif chain leaves it
BinName(bin) == IF bin \in Bins THEN Phrase(<<bin>>) ELSE Phrase(BinTitle[bin])

\* personality_templates
FriendlyTemplate ==
    [greeting |-> << <<"Great!">>, <<"Awesome!">>, <<"Perfect!">>, <<"Excellent!">> >>,
     intro_head |-> <<"I", " ", "found", " ">>,
     intro_item |-> <<" ">>,
     intro_tail |-> <<" ", "in", " ", "your", " ", "image">>,
     decision_head |-> <<"This", " ">>,
     decision_mid |-> <<" ", "goes", " ", "in", " ", "the", " ">>,
     decision_tail |-> <<" ", "bin", " ", "because", " ">>,
     eco_tip_intro |-> <<"Here", "'", "s", " ", "a", " ", "fun", " ", "fact:">>,
     closing |-> << Phrase(<<"Every", " ", "small", " ", "action", " ", "counts", " ",
                             "towards", " ", "a", " ", "greener", " ", "planet!", " ">>)
                      \o <<Sym("seedling", 4)>>,
                    Phrase(<<"You", "'", "re", " ", "making", " ", "a", " ", "difference!", " ">>)
                      \o <<Sym("globe", 3)>>,
                    Phrase(<<"Keep", " ", "up", " ", "the", " ", "great", " ", "work!", " ">>)
                      \o <<Sym("recycle", 5)>> >>]

EnthusiasticTemplate ==
    [greeting |-> << <<"Fantastic!">>, <<"Amazing!">>, <<"Incredible!">>, <<"Outstanding!">> >>,
     intro_head |-> <<"I", " ", "detected", " ">>,
     intro_item |-> <<" ", "amazing", " ">>,
     intro_tail |-> <<" ", "in", " ", "your", " ", "photo">>,
     decision_head |-> <<"This", " ">>,
     decision_mid |-> <<" ", "belongs", " ", "in", " ", "the", " ">>,
     decision_tail |-> <<" ", "bin!", " ", "Here", "'", "s", " ", "why:", " ">>,
     eco_tip_intro |-> <<"Get", " ", "this", " ", "exciting", " ", "fact:">>,
     closing |-> << Phrase(<<"You", "'", "re", " ", "absolutely", " ", "crushing", " ", "it", " ",
                             "for", " ", "the", " ", "environment!", " ">>)
                      \o <<Sym("star", 4)>>,
                    Phrase(<<"This", " ", "is", " ", "how", " ", "we", " ", "save", " ", "the",
                             " ", "planet!", " ">>)
                      \o <<Sym("rocket", 4)>>,
                    Phrase(<<"You", "'", "re", " ", "an", " ", "eco-hero!", " ">>)
                      \o <<Sym("heart", 4)>> >>]

EducationalTemplate ==
    [greeting |-> << <<"Let", " ", "me", " ", "analyze", " ", "this", " ", "for", " ", "you.">>,
                     <<"I", "'", "ll", " ", "help", " ", "you", " ", "sort", " ", "these", " ",
                       "items", " ", "correctly.">>,
                     <<"Here", "'", "s", " ", "what", " ", "I", " ", "found:">> >>,
     intro_head |-> <<"I", "'", "ve", " ", "identified", " ">>,
     intro_item |-> <<" ">>,
     intro_tail |-> <<" ", "in", " ", "your", " ", "image">>,
     decision_head |-> <<"The", " ">>,
     decision_mid |-> <<" ", "should", " ", "be", " ", "placed", " ", "in", " ", "the", " ">>,
     decision_tail |-> <<" ", "bin.", " ", "The", " ", "reasoning", " ", "is:", " ">>,
     eco_tip_intro |-> <<"Additional", " ", "information:">>,
     closing |-> << Phrase(<<"Proper", " ", "sorting", " ", "contributes", " ", "to", " ",
                             "environmental", " ", "sustainability.">>),
                    Phrase(<<"Thank", " ", "you", " ", "for", " ", "taking", " ", "the", " ",
                             "time", " ", "to", " ", "sort", " ", "correctly.">>),
                    Phrase(<<"Your", " ", "efforts", " ", "help", " ", "reduce", " ", "waste",
                             " ", "and", " ", "pollution.">>) >>]

ValidPersonalities == {"friendly", "enthusiastic", "educational"}

\* personality_templates.get(voice_personality, personality_templates["friendly"])
TemplateOf(voice_personality) ==
    CASE voice_personality = "enthusiastic" -> EnthusiasticTemplate
      [] voice_personality = "educational" -> EducationalTemplate
      [] OTHER -> FriendlyTemplate

\* template["item_intro"].format(count=item_count, plural=plural)
ItemIntro(template, count) ==
    Phrase(template.intro_head) \o <<Word(ToString(count))>> \o Phrase(template.intro_item)
      \o <<Word(IF count > 1 THEN "items" ELSE "item")>> \o Phrase(template.intro_tail)

\* template["bin_decision"].format(item=..., bin=bin_name, explanation=...)
BinDecision(template, decision) ==
    Phrase(template.decision_head) \o decision.label \o Phrase(template.decision_mid)
      \o BinName(decision.bin) \o Phrase(template.decision_tail) \o decision.explanation

\* the parts one decision appends to conversation_parts
DecisionParts(template, decision, include_eco_tips) ==
    <<BinDecision(template, decision)>>
      \o (IF include_eco_tips /\ decision.eco_tip # <<>>
          THEN <<Phrase(template.eco_tip_intro) \o <<Space>> \o decision.eco_tip>>
          ELSE <<>>)

RECURSIVE ConversationParts(_, _, _)
ConversationParts(template, decisions, include_eco_tips) ==
    IF decisions = <<>> THEN <<>>
    ELSE DecisionParts(template, Head(decisions), include_eco_tips)
           \o ConversationParts(template, Tail(decisions), include_eco_tips)

NoItemsText ==
    Phrase(<<"I", " ", "don", "'", "t", " ", "see", " ", "any", " ", "items", " ", "to", " ",
             "analyze.", " ", "Please", " ", "try", " ", "uploading", " ", "a", " ", "photo!">>)

\* greeting and closing are the indices random.choice picked
generate_conversational_text(decisions, voice_personality, include_eco_tips, greeting, closing) ==
    IF decisions = <<>> THEN NoItemsText
    ELSE LET template == TemplateOf(voice_personality)
             parts == <<Phrase(template.greeting[greeting]),
                        ItemIntro(template, Len(decisions))>>
                      \o ConversationParts(template, decisions, include_eco_tips)
                      \o <<template.closing[closing]>>
         IN  sanitize_text(Join(parts, <<Space>>))

\* the parts one decision appends in generate_fallback_text
FallbackParts(decision) ==
    << decision.label \o Phrase(<<":", " ">>) \o BinName(decision.bin)
         \o Phrase(<<" ", "bin.", " ">>) \o decision.explanation >>
      \o (IF decision.eco_tip # <<>>
          THEN <<Phrase(<<"Eco", " ", "tip:", " ">>) \o decision.eco_tip>>
          ELSE <<>>)

\* the loop appending the parts of the last decision first
RECURSIVE AllFallbackPartsReversed(_)
AllFallbackPartsReversed(decisions) ==
    IF decisions = <<>> THEN <<>>
    ELSE AllFallbackPartsReversed(Tail(decisions)) \o FallbackParts(Head(decisions))

RECURSIVE AllFallbackParts(_)
AllFallbackParts(decisions) ==
    IF decisions = <<>> THEN <<>>
    ELSE FallbackParts(Head(decisions)) \o AllFallbackParts(Tail(decisions))

NoItemsFallback ==
    Phrase(<<"No", " ", "items", " ", "detected.", " ", "Please", " ", "try", " ",
             "uploading", " ", "a", " ", "photo.">>)

generate_fallback_text(decisions) ==
    IF decisions = <<>> THEN NoItemsFallback
    ELSE sanitize_text(Join(AllFallbackParts(decisions), Phrase(<<" ", "|", " ">>)))

(***************************************************************************)
(* utils/elevenlabs_client.py                                              *)
(* Voice settings are kept in hundredths, as confidences are.              *)
(***************************************************************************)
PersonalityOrder == <<"friendly", "enthusiastic", "educational">>

VOICE_PERSONALITIES ==
    [friendly |->
        [voice_id |-> "s3TPKV1kjDlVtZbl4Ksh",
         voice_settings |-> [stability |-> 60, similarity_boost |-> 70, style |-> 30,
                             use_speaker_boost |-> TRUE],
         avatar |-> [name |-> "Green Gary", gender |-> "male", color_theme |-> "#4CAF50"]],
     enthusiastic |->
        [voice_id |-> "y3H6zY6KvCH2pEuQjmv8",
         voice_settings |-> [stability |-> 40, similarity_boost |-> 80, style |-> 60,
                             use_speaker_boost |-> TRUE],
         avatar |-> [name |-> "Eco Emma", gender |-> "female", color_theme |-> "#FF9800"]],
     educational |->
        [voice_id |-> "onwK4e9ZLuTAKqWW03F9",
         voice_settings |-> [stability |-> 80, similarity_boost |-> 60, style |-> 20,
                             use_speaker_boost |-> TRUE],
         avatar |-> [name |-> "Professor Pete", gender |-> "male", color_theme |-> "#2196F3"]]]

\* VOICE_PERSONALITIES.get(voice_personality, VOICE_PERSONALITIES["friendly"])
VoiceConfig(voice_personality) ==
    IF voice_personality \in DOMAIN VOICE_PERSONALITIES
    THEN VOICE_PERSONALITIES[voice_personality]
    ELSE VOICE_PERSONALITIES["friendly"]

\* the reply of the text-to-speech endpoint: bytes tells whether resp.content
\* is a bytes object, audio is its content
TtsReply(transport, status, bytes, audio) ==
    [transport |-> transport, status |-> status, bytes |-> bytes, audio |-> audio]
NoTtsCall == TtsReply("none", 0, FALSE, <<>>)

\* what a call gives its caller: None, the bytes, the data URL, or an
\* exception that leaves the function
None == [exc |-> "none", some |-> FALSE, bytes |-> FALSE, prefix |-> "", data |-> <<>>]
Content(reply) ==
    [exc |-> "none", some |-> TRUE, bytes |-> reply.bytes, prefix |-> "", data |-> reply.audio]
DataUrl(payload) ==
    [exc |-> "none", some |-> TRUE, bytes |-> FALSE, prefix |-> "data:audio/mpeg;base64,",
     data |-> payload]
Escaped(exc) == [exc |-> exc, some |-> FALSE, bytes |-> FALSE, prefix |-> "", data |-> <<>>]

\* get_tts_audio_data once the key is known to be set: the try block
AudioOfReply(reply) ==
    IF reply.transport = "error" THEN None
    ELSE IF reply.status # 200 THEN None
    ELSE Content(reply)

\* get_tts_audio_data
get_tts_audio_data(keySet, reply) ==
    IF ~keySet THEN None ELSE AudioOfReply(reply)

B64Alphabet ==
    <<"A", "B", "C", "D", "E", "F", "G", "H", "I", "J", "K", "L", "M", "N", "O", "P",
      "Q", "R", "S", "T", "U", "V", "W", "X", "Y", "Z", "a", "b", "c", "d", "e", "f",
      "g", "h", "i", "j", "k", "l", "m", "n", "o", "p", "q", "r", "s", "t", "u", "v",
      "w", "x", "y", "z", "0", "1", "2", "3", "4", "5", "6", "7", "8", "9", "+", "/">>

\* base64.b64encode(audio_data).decode('utf-8'), one character per element
RECURSIVE b64encode(_)
b64encode(bytes) ==
    IF bytes = <<>> THEN <<>>
    ELSE IF Len(bytes) = 1
    THEN LET n == bytes[1] * 16
         IN  <<B64Alphabet[(n \div 64) + 1], B64Alphabet[(n % 64) + 1], "=", "=">>
    ELSE IF Len(bytes) = 2
    THEN LET n == (bytes[1] * 256 + bytes[2]) * 4
         IN  <<B64Alphabet[(n \div 4096) + 1], B64Alphabet[((n \div 64) % 64) + 1],
               B64Alphabet[(n % 64) + 1], "=">>
    ELSE LET n == bytes[1] * 65536 + bytes[2] * 256 + bytes[3]
         IN  <<B64Alphabet[(n \div 262144) + 1], B64Alphabet[((n \div 4096) % 64) + 1],
               B64Alphabet[((n \div 64) % 64) + 1], B64Alphabet[(n % 64) + 1]>>
             \o b64encode(SubSeq(bytes, 4, Len(bytes)))

\* the try block of get_tts_base64: b64encode raises on what is not bytes
EncodeOutcome(audio_data) ==
    IF ~audio_data.bytes THEN Escaped("TypeError")
    ELSE DataUrl(b64encode(audio_data.data))

\* the encoding without its except clause
EncodeUnhandled(outcome) == outcome

\* except Exception: return None
EncodeHandlers(outcome) == IF outcome.exc = "none" THEN outcome ELSE None

\* get_tts_base64 after get_tts_audio_data
EncodeAudio(audio_data) ==
    IF ~audio_data.some THEN None
    ELSE EncodeHandlers(EncodeOutcome(audio_data))

get_tts_base64(keySet, reply) == EncodeAudio(get_tts_audio_data(keySet, reply))

\* what get_tts_base64 was invoked with, and the voice its request names
NoInvocation == [invoked |-> FALSE, text |-> <<>>, voice_personality |-> "", voice_id |-> ""]
Invocation(text, voice_personality) ==
    [invoked |-> TRUE, text |-> text, voice_personality |-> voice_personality,
     voice_id |-> VoiceConfig(voice_personality).voice_id]

\* requests one http_client.post sends (utils/http_client.py)
RequestsPerPost == 1

\* executions of the post statement in one invocation of a gateway: the
\* statement is in no loop and its failure leaves the function
ReasoningPosts(reply) == 1
CvPosts(reply) == 1
\* the post repeated once after a failure
TtsPostsRetry(reply) == IF reply.transport = "error" \/ reply.status # 200 THEN 2 ELSE 1
TtsPosts(reply) == 1

NoOutbound == [cv |-> 0, reasoning |-> 0, tts |-> 0]

Bytes == {0, 77, 255}

MaxAudio == 3      \* bytes of audio in one reply of the text-to-speech endpoint

TtsStatuses == {401, 500}

TtsReplies ==
    { TtsReply("error", 0, FALSE, <<>>) }
    \cup { TtsReply("ok", st, TRUE, <<77>>) : st \in TtsStatuses }
    \cup { TtsReply("ok", 200, FALSE, <<>>) }
    \cup { TtsReply("ok", 200, TRUE, audio) : audio \in SeqsUpTo(Bytes, MaxAudio) }

\* the replies drawn while POST /chatbot/speak is served
SpeakTtsReplies ==
    { TtsReply("error", 0, FALSE, <<>>),
      TtsReply("ok", 500, TRUE, <<77>>),
      TtsReply("ok", 200, FALSE, <<>>),
      TtsReply("ok", 200, TRUE, <<77, 255>>) }

\* "<null>" stands for a voice_personality of null
RequestPersonalities == ValidPersonalities \cup {"grumpy", "<null>"}

(***************************************************************************)
(* routes/chatbot.py: POST /chatbot/speak                                  *)
(***************************************************************************)
MAX_SPEAK_ITEMS == 10

SpeakError(status, detail) ==
    [exc |-> "HTTPException", status |-> status, detail |-> detail, audio_url |-> None,
     conversational_text |-> <<>>, fallback_text |-> <<>>, voice_personality |-> ""]
SpeakOk(audio_url, conversational_text, fallback_text, voice_personality) ==
    [exc |-> "none", status |-> 200, detail |-> "", audio_url |-> audio_url,
     conversational_text |-> conversational_text, fallback_text |-> fallback_text,
     voice_personality |-> voice_personality]
NoSpeakResponse ==
    [exc |-> "pending", status |-> 0, detail |-> "", audio_url |-> None,
     conversational_text |-> <<>>, fallback_text |-> <<>>, voice_personality |-> ""]

\* the inner try around get_tts_base64: audio_url starts as None and an
\* exception of the call leaves it so
AudioUrlOf(result) == IF result.exc # "none" THEN None ELSE result

\* a body that gives up when there is no audio
SpeakBodyNeedsAudio(result, conversational_text, fallback_text, voice_personality) ==
    IF ~AudioUrlOf(result).some THEN [NoSpeakResponse EXCEPT !.exc = "RuntimeError"]
    ELSE SpeakOk(AudioUrlOf(result), conversational_text, fallback_text, voice_personality)

\* the statements after the composition, up to the return
SpeakBody(result, conversational_text, fallback_text, voice_personality) ==
    SpeakOk(AudioUrlOf(result), conversational_text, fallback_text, voice_personality)

\* the checks without the one on the number of decisions
ValidateDecisionsNoCap(decisions) ==
    IF decisions = <<>> THEN SpeakError(400, "No decisions provided") ELSE NoSpeakResponse

\* the two checks at the head of the try block
ValidateDecisions(decisions) ==
    IF decisions = <<>> THEN SpeakError(400, "No decisions provided")
    ELSE IF Len(decisions) > MAX_SPEAK_ITEMS THEN SpeakError(400, "Too many items (max 10)")
    ELSE NoSpeakResponse

\* except Exception: HTTPException is an Exception, so the 400 raised in the
\* try block is caught here too
SpeakHandlers(outcome) ==
    IF outcome.exc = "none" THEN outcome
    ELSE SpeakError(500, "Failed to generate speech")

\* the loop that sanitizes label, explanation and eco_tip of each decision in place
SanitizeDecisions(decisions) ==
    [i \in DOMAIN decisions |->
        [label |-> sanitize_text(decisions[i].label),
         bin |-> decisions[i].bin,
         explanation |-> sanitize_text(decisions[i].explanation),
         eco_tip |-> sanitize_text(decisions[i].eco_tip)]]

\* the personality used as it was sent
KeepPersonality(voice_personality) == voice_personality

\* if voice_personality not in valid_personalities: voice_personality = "friendly"
CoercePersonality(voice_personality) ==
    IF voice_personality \in ValidPersonalities THEN voice_personality ELSE "friendly"

NoNarration == [composed |-> FALSE, conversational_text |-> <<>>, fallback_text |-> <<>>]
Narration(conversational_text, fallback_text) ==
    [composed |-> TRUE, conversational_text |-> conversational_text,
     fallback_text |-> fallback_text]

\* the decisions of the requests
SpeakDecision(label, bin, explanation, eco_tip) ==
    [label |-> label, bin |-> bin, explanation |-> explanation, eco_tip |-> eco_tip]

SpeakDecisions ==
    { SpeakDecision(Phrase(<<"cup">>), "recycling", Phrase(<<"rinse", " ", "it">>),
                    Phrase(<<"reuse", " ", "it">>)),
      SpeakDecision(Phrase(<<"<", "b", ">", "lid">>), "landfill", <<Run("a", 1000)>>, <<>>),
      SpeakDecision(Phrase(<<"can">>), "trash", Phrase(<<"metal">>), Phrase(<<"'">>)),
      SpeakDecision(Phrase(<<"peel", " ", "|", " ", "core">>), "compost", Phrase(<<"food">>),
                    <<>>) }

MaxDecisions == 2  \* length of the lists of differing decisions
MaxOver == 1       \* how far a list of equal decisions goes beyond MAX_SPEAK_ITEMS

Repeat(x, n) == [i \in 1..n |-> x]

DecisionLists ==
    SeqsUpTo(SpeakDecisions, MaxDecisions)
    \cup { Repeat(SpeakDecision(Phrase(<<"cup">>), "recycling", Phrase(<<"rinse", " ", "it">>),
                                Phrase(<<"reuse", " ", "it">>)), n) :
             n \in (MAX_SPEAK_ITEMS - 1)..(MAX_SPEAK_ITEMS + MaxOver) }

SpeakRequests ==
    [decisions : DecisionLists, voice_personality : RequestPersonalities,
     include_eco_tips : BOOLEAN]

NoSpeakRequest == [decisions |-> <<>>, voice_personality |-> "", include_eco_tips |-> FALSE]

(***************************************************************************)
(* routes/chatbot.py: GET /chatbot/voices and GET /chatbot/avatars         *)
(***************************************************************************)
\* the names the module binds, in the order of the file: a def binds its
\* name again, so the route defined last under the name of an imported
\* helper hides the helper
ChatbotBindings ==
    << [name |-> "get_voice_personalities", value |-> "helper"],
       [name |-> "get_avatar_configurations", value |-> "helper"],
       [name |-> "get_available_voices", value |-> "route"],
       [name |-> "get_avatar_configurations", value |-> "route"] >>

\* the binding a name has when a handler runs: the last one of the module
Global(name) ==
    LET at == {i \in DOMAIN ChatbotBindings : ChatbotBindings[i].name = name}
    IN  ChatbotBindings[CHOOSE i \in at : \A j \in at : j <= i].value

CatalogError(route, detail) ==
    [route |-> route, exc |-> "HTTPException", status |-> 500, detail |-> detail, entries |-> <<>>]
CatalogOk(route, entries) ==
    [route |-> route, exc |-> "none", status |-> 200, detail |-> "", entries |-> entries]
NoCatalogResponse ==
    [route |-> "", exc |-> "pending", status |-> 0, detail |-> "", entries |-> <<>>]

\* VoiceSettings: three floats in [0,1]
VoiceSettingsValid(vs) ==
    \A f \in {"stability", "similarity_boost", "style"} : vs[f] >= 0 /\ vs[f] <= 100

\* get_available_voices: one VoicePersonality per item of the table
VoicesBody ==
    IF Global("get_voice_personalities") # "helper" THEN Raised("TypeError")
    ELSE IF \E p \in DOMAIN VOICE_PERSONALITIES :
              ~VoiceSettingsValid(VOICE_PERSONALITIES[p].voice_settings)
    THEN Raised("ValueError")
    ELSE Returned([i \in DOMAIN PersonalityOrder |->
                     [personality_id |-> PersonalityOrder[i],
                      voice_id |-> VOICE_PERSONALITIES[PersonalityOrder[i]].voice_id,
                      voice_settings |-> VOICE_PERSONALITIES[PersonalityOrder[i]].voice_settings,
                      avatar |-> VOICE_PERSONALITIES[PersonalityOrder[i]].avatar]])

\* utils.elevenlabs_client.get_avatar_configurations
AvatarConfigurations ==
    [i \in DOMAIN PersonalityOrder |->
        [personality_id |-> PersonalityOrder[i],
         voice_id |-> VOICE_PERSONALITIES[PersonalityOrder[i]].voice_id,
         avatar |-> VOICE_PERSONALITIES[PersonalityOrder[i]].avatar]]

\* the route get_avatar_configurations: the call of the name gives the
\* helper's list, or a coroutine of the route itself that the for loop
\* cannot iterate
AvatarsBody ==
    IF Global("get_avatar_configurations") # "helper" THEN Raised("TypeError")
    ELSE Returned(AvatarConfigurations)

\* except Exception of the two routes
CatalogHandlers(route, outcome, detail) ==
    IF outcome.exc = "none" THEN CatalogOk(route, outcome.items)
    ELSE CatalogError(route, detail)

(***************************************************************************)
(* utils/supabase_client.py and routes/event.py: POST /event.              *)
(* A call of the store is a step of its own, so that what the handler has  *)
(* done before the store answers can be told from what it does after.      *)
(***************************************************************************)
MaxEvents == 2     \* rows the sort_events table comes to hold

\* user_id "" stands for an event without user_id
EventUsers == {"", "u1", "u2"}
EventRequests == [user_id : EventUsers, decision : {"recycling", "compost", "landfill"}]
NoEventRequest == [user_id |-> "", decision |-> ""]

EventOk(id) == [exc |-> "none", status |-> 200, error |-> "", id |-> id]
EventError(status, error) == [exc |-> "HTTPException", status |-> status, error |-> error, id |-> 0]
EventRaised(exc) == [exc |-> exc, status |-> 0, error |-> "", id |-> 0]
NoEventResponse == [exc |-> "pending", status |-> 0, error |-> "", id |-> 0]

NoEvent ==
    [pc |-> "idle", req |-> NoEventRequest, write |-> "none", id |-> 0, checks |-> 0,
     rpc |-> "none", check |-> "none", resp |-> NoEventResponse]

\* the row the store keeps: id is assigned by the store
SortEventRow(id, req) == [id |-> id, user_id |-> req.user_id, decision |-> req.decision]

\* the condition of the check read as always true
ShouldCheckAlways(req) == TRUE

\* if payload.user_id:
ShouldCheck(req) == req.user_id # ""

\* check_user_achievements without its except clause
CheckUnhandled(outcome) == IF outcome = "error" THEN "raised" ELSE "returned"

\* check_user_achievements: except Exception logs a warning and returns
CheckHandlers(outcome) == "returned"

\* insert_sort_event after the write: return int(inserted["id"]), or the
\* exception that reached its except clause, raised again
InsertOutcome(id, check) ==
    IF check = "raised" THEN EventRaised("APIError") ELSE EventOk(id)

\* log_event: HTTPException passes, any other exception becomes 500 server_error
LogEventHandlers(outcome) ==
    IF outcome.exc \in {"none", "HTTPException"} THEN outcome
    ELSE EventError(500, "server_error")

(***************************************************************************)
(* utils/supabase_client.py: ensure_seed_policies, run at startup.         *)
(* A policies row is "seed" when it holds the seed rules, "other" when it  *)
(* holds what another writer put there, "none" when the ZIP has no row.    *)
(***************************************************************************)
MaxRuns == 2       \* runs of ensure_seed_policies that may interleave

SeedZips == {"10001", "94103"}
SeedRunIds == 1..MaxRuns
NoPolicies == [z \in SeedZips |-> "none"]
\* overwrote: the ZIPs whose row the run's upsert replaced
IdleRun ==
    [pc |-> "idle", found |-> {}, wrote |-> {}, overwrote |-> {}, error |-> FALSE,
     startup |-> "pending"]
NoSeedRuns == [r \in SeedRunIds |-> IdleRun]

\* found_zips = {row["zip"] for row in res.data or []}
FoundZips(table) == {z \in SeedZips : table[z] # "none"}

\* the seeds list without the "not in found_zips" tests
SeedsAll(found) == SeedZips

\* the seeds list: one entry per seed ZIP not in found_zips
SeedsFor(found) == SeedZips \ found

\* upsert(seeds, on_conflict="zip"): inserts the row, or overwrites the row
\* that holds the ZIP
Upsert(table, seeds) == [z \in SeedZips |-> IF z \in seeds THEN "seed" ELSE table[z]]

\* ensure_seed_policies without its except clause: the error reaches startup_event
SeedUnhandled(outcome) == IF outcome = "error" THEN "failed" ELSE "complete"

\* ensure_seed_policies: except Exception logs the error and returns, and
\* startup_event returns after it
SeedHandlers(outcome) == "complete"

(***************************************************************************)
(* routes/users.py: GET /users/profile/{user_id}, over get_user.           *)
(***************************************************************************)
ProfileUsers == {"u1", "u2", "u3", "u4"}
\* a column the row does not carry
Missing == "<missing>"

\* what the users table holds for the user, as the select returns it
UserRows ==
    [full_name : {Missing, "Ann"}, avatar_url : {Missing, "a.png"},
     last_seen : {Missing, "t1"}, is_active : {Missing, "true", "false"}]

\* the reply of the store to the select: rows, no row, or an exception
NoRow == [kind |-> "empty", row |-> [full_name |-> Missing, avatar_url |-> Missing, last_seen |-> Missing, is_active |-> Missing]]
QueryError == [kind |-> "error", row |-> NoRow.row]
RowFound(row) == [kind |-> "row", row |-> row]
\* SUPABASE_URL or the service key is not set: building the service raises
Unconfigured == [kind |-> "unconfigured", row |-> NoRow.row]
StoreReplies == {NoRow, QueryError, Unconfigured} \cup {RowFound(row) : row \in UserRows}

ProfileOk(body) == [exc |-> "none", status |-> 200, detail |-> "", body |-> body]
ProfileError(status, detail) == [exc |-> "HTTPException", status |-> status, detail |-> detail, body |-> NoRow.row]
NoProfileResponse == [exc |-> "pending", status |-> 0, detail |-> "", body |-> NoRow.row]
NoProfile == [user_id |-> "", reply |-> NoRow, user |-> "unset", resp |-> NoProfileResponse]

\* get_user as result.data[0] with neither the test of result.data nor the
\* except clause
GetUserUnguarded(reply) == IF reply.kind = "row" THEN "row" ELSE "raised"

\* get_user: result.data[0] if result.data else None; except Exception
\* logs and returns None
GetUser(reply) == IF reply.kind = "row" THEN "row" ELSE "None"

\* dict.get(key, default)
GetOr(v, default) == IF v = Missing THEN default ELSE v

\* the UserProfile built from the row
UserProfile(row) ==
    [full_name |-> row.full_name, avatar_url |-> row.avatar_url,
     last_seen |-> row.last_seen, is_active |-> GetOr(row.is_active, "true")]

\* get_user_profile
GetUserProfile(reply) ==
    LET user == IF reply.kind = "unconfigured" THEN "raised" ELSE GetUser(reply)
    IN  CASE user = "raised" -> ProfileError(500, "Failed to retrieve user profile")
          [] user = "None" -> ProfileError(404, "User not found")
          [] OTHER -> ProfileOk(UserProfile(reply.row))

(***************************************************************************)
(* routes/analytics.py: GET /analytics/leaderboard for a time_period other *)
(* than "all".  The rows are those the store returns for the window.       *)
(***************************************************************************)
MaxBoardEvents == 3    \* rows of sort_events in the window

\* user_id "" stands for a row without user_id
BoardUsers == {"", "u1", "u2"}
BoardRows == [user_id : BoardUsers, decision : {"recycling", "compost", "landfill"}, co2e_saved : {5}]
BoardPeriods == {"7d", "2w"}
BoardLimits == (-1)..MaxBoardEvents
NoBoardRequest == [limit |-> 0, time_period |-> ""]
NoBoard == [req |-> NoBoardRequest, events |-> <<>>, known |-> {}, resp |-> NoResponse]

\* every decision worth the same
FlatPoints(decision) == 2

\* the points of one event
PointsOf(decision) ==
    CASE decision = "recycling" -> 10
      [] decision = "compost" -> 8
      [] OTHER -> 2

NewStats(user_id) ==
    [user_id |-> user_id, total_items_sorted |-> 0, total_co2_saved |-> 0,
     total_points |-> 0, rank_position |-> 0, user_name |-> ""]

\* one turn of the loop over the events
Tally(stats, ev) ==
    IF ev.user_id = "" THEN stats
    ELSE LET known == \E i \in 1..Len(stats) : stats[i].user_id = ev.user_id
             all == IF known THEN stats ELSE Append(stats, NewStats(ev.user_id))
         IN  [i \in 1..Len(all) |->
                 IF all[i].user_id = ev.user_id
                 THEN [all[i] EXCEPT !.total_items_sorted = @ + 1,
                                     !.total_co2_saved = @ + ev.co2e_saved,
                                     !.total_points = @ + PointsOf(ev.decision)]
                 ELSE all[i]]

\* user_stats.values() after the loop: one entry per user, in the order of
\* the users' first events
RECURSIVE UserStats(_)
UserStats(events) ==
    IF events = <<>> THEN <<>>
    ELSE Tally(UserStats(SubSeq(events, 1, Len(events) - 1)), events[Len(events)])

\* sorted() with the key ascending
SortedAscending(stats) ==
    LET place(j) == 1 + Cardinality({k \in 1..Len(stats) :
                        \/ stats[k].total_points < stats[j].total_points
                        \/ stats[k].total_points = stats[j].total_points /\ k < j})
    IN  [i \in 1..Len(stats) |-> stats[CHOOSE j \in 1..Len(stats) : place(j) = i]]

\* sorted(..., key=total_points, reverse=True): stable, so that entries
\* with equal points keep their order
SortedByPoints(stats) ==
    LET place(j) == 1 + Cardinality({k \in 1..Len(stats) :
                        \/ stats[k].total_points > stats[j].total_points
                        \/ stats[k].total_points = stats[j].total_points /\ k < j})
    IN  [i \in 1..Len(stats) |-> stats[CHOOSE j \in 1..Len(stats) : place(j) = i]]

\* seq[:limit]: a negative limit counts from the end
Slice(seq, limit) ==
    CASE limit >= Len(seq) -> seq
      [] limit >= 0 -> SubSeq(seq, 1, limit)
      [] Len(seq) + limit > 0 -> SubSeq(seq, 1, Len(seq) + limit)
      [] OTHER -> <<>>

\* rank_position = i + 1, then user_name from get_user
Ranked(board_, known) ==
    [i \in 1..Len(board_) |->
        [board_[i] EXCEPT !.rank_position = i,
                          !.user_name = IF board_[i].user_id \in known THEN "Ann" ELSE "Anonymous"]]

\* get_leaderboard, the branch of a time_period other than "all"
Leaderboard(events, limit, known) ==
    Ranked(Slice(SortedByPoints(UserStats(events)), limit), known)

(***************************************************************************)
(* routes/analytics.py: GET /analytics/trends and _analyze_trends.  The    *)
(* sort_events table is a sequence of rows; a query returns the rows that  *)
(* pass the filters it was built with.                                     *)
(***************************************************************************)
MaxTrendRows == 2      \* rows of sort_events

\* window: the period the row's created_at falls in
TrendRows ==
    [zip : {"10001", "94103"}, user_id : {"u1", "u2"}, window : {"current", "previous"},
     co2e_saved : {0, 10}]
\* "" stands for a filter that was not given
TrendRequests == [zip_code : {"", "10001"}, user_id : {"", "u1"}]
NoTrendRequest == [zip_code |-> "", user_id |-> ""]
NoChange == [num |-> 0, den |-> 1]
NoTrend == [current |-> 0, previous |-> 0, change_percentage |-> NoChange]
\* given: whether the trends mapping has its entries ({} when there are no events)
NoTrendsBody ==
    [total_items |-> 0, total_co2_saved |-> 0, total_users |-> 0, given |-> FALSE,
     items_trend |-> NoTrend, co2_trend |-> NoTrend]
NoTrends == [req |-> NoTrendRequest, table |-> <<>>, status |-> 0, body |-> NoTrendsBody]

RECURSIVE SumCo2(_)
SumCo2(rows) == IF rows = <<>> THEN 0 ELSE Head(rows).co2e_saved + SumCo2(Tail(rows))

\* the query of get_analytics_trends: eq zip if zip_code, eq user_id if
\* user_id, gte created_at start_date
CurrentQuery(table, req) ==
    LET Test(row) ==
            /\ req.zip_code # "" => row.zip = req.zip_code
            /\ req.user_id # "" => row.user_id = req.user_id
            /\ row.window = "current"
    IN  SelectSeq(table, Test)

\* the query of _analyze_trends: gte previous_start, lt previous_end
PreviousQuery(table, req) ==
    LET Test(row) == row.window = "previous"
    IN  SelectSeq(table, Test)

\* the quotient (current - previous) / previous * 100, kept as a fraction
ChangePercentage(current, previous) ==
    IF previous > 0 THEN [num |-> (current - previous) * 100, den |-> previous] ELSE NoChange

Trend(current, previous) ==
    [current |-> current, previous |-> previous,
     change_percentage |-> ChangePercentage(current, previous)]

\* get_analytics_trends, as far as the totals and the trends mapping
AnalyticsTrends(table, req) ==
    LET events == CurrentQuery(table, req)
        previous_data == PreviousQuery(table, req)
    IN  [total_items |-> Len(events),
         total_co2_saved |-> SumCo2(events),
         total_users |-> Cardinality({events[i].user_id : i \in 1..Len(events)}),
         given |-> events # <<>>,
         items_trend |-> IF events = <<>> THEN NoTrend
                         ELSE Trend(Len(events), Len(previous_data)),
         co2_trend |-> IF events = <<>> THEN NoTrend
                       ELSE Trend(SumCo2(events), SumCo2(previous_data))]

\* no request of the persistence routes served, no seeding run started
StoreIdle ==
    /\ event = NoEvent
    /\ sortEvents = <<>>
    /\ policies = NoPolicies
    /\ seedRuns = NoSeedRuns
    /\ profile = NoProfile
    /\ board = NoBoard
    /\ trends = NoTrends

NoUpload == [filename |-> "", content_type |-> "", size |-> 0]

\* before any request is served
InitExplain ==
    /\ apiKeySet \in BOOLEAN
    /\ explainReq = <<>>
    /\ reasoningReply = NoCall
    /\ explainResp = NoResponse
    /\ inferReq = NoUpload
    /\ cvReply = NoCvCall
    /\ inferResp = NoResponse
    /\ outbound = NoOutbound
    /\ ttsKeySet = TRUE
    /\ speakReq = NoSpeakRequest
    /\ narration = NoNarration
    /\ ttsCall = NoInvocation
    /\ ttsReply = NoTtsCall
    /\ ttsResult = None
    /\ speakResp = NoSpeakResponse
    /\ catalogResp = NoCatalogResponse
    /\ fnIn = <<>>
    /\ fnOut = <<>>
    /\ StoreIdle

\* The handlers keep no state from one request to the next, so the model
\* serves one request from the initial state: every request is that one.

\* POST /explain with the key missing: no outbound call is made
ExplainNoKey ==
    /\ explainResp = NoResponse
    /\ ~apiKeySet
    /\ \E items \in SeqsUpTo(Labels, MaxItems) :
         /\ explainReq' = items
         /\ reasoningReply' = NoCall
         /\ explainResp' = ExplainOutcome(MissingKey)
    /\ UNCHANGED <<apiKeySet, inferVars, outbound, ttsKeySet, chatVars, fnVars, storeVars>>

\* POST /explain with the key set: one outbound call, then the parsing pipeline
Explain ==
    /\ explainResp = NoResponse
    /\ apiKeySet
    /\ \E items \in SeqsUpTo(Labels, MaxItems), reply \in ReasoningReplies :
         /\ explainReq' = items
         /\ reasoningReply' = reply
         /\ explainResp' = ExplainOutcome(AfterPost(reply))
         /\ outbound' = [outbound EXCEPT
                           !.reasoning = @ + ReasoningPosts(reply) * RequestsPerPost]
    /\ UNCHANGED <<apiKeySet, inferVars, ttsKeySet, chatVars, fnVars, storeVars>>

NextExplain == ExplainNoKey \/ Explain

SpecExplain == InitExplain /\ [][NextExplain]_vars

\* before any upload is served
InitInfer ==
    /\ apiKeySet = TRUE
    /\ explainReq = <<>>
    /\ reasoningReply = NoCall
    /\ explainResp = NoResponse
    /\ inferReq = NoUpload
    /\ cvReply = NoCvCall
    /\ inferResp = NoResponse
    /\ outbound = NoOutbound
    /\ ttsKeySet = TRUE
    /\ speakReq = NoSpeakRequest
    /\ narration = NoNarration
    /\ ttsCall = NoInvocation
    /\ ttsReply = NoTtsCall
    /\ ttsResult = None
    /\ speakResp = NoSpeakResponse
    /\ catalogResp = NoCatalogResponse
    /\ fnIn = <<>>
    /\ fnOut = <<>>
    /\ StoreIdle

\* POST /infer with an upload the validation rejects: no outbound call
InferRejected ==
    /\ inferResp = NoResponse
    /\ \E file \in Uploads :
         /\ ValidateUpload(file).exc # "none"
         /\ inferReq' = file
         /\ cvReply' = NoCvCall
         /\ inferResp' = InferHandlers(ValidateUpload(file))
    /\ UNCHANGED <<explainVars, outbound, ttsKeySet, chatVars, fnVars, storeVars>>

\* POST /infer with a valid upload: one outbound call, then the normalisation
Infer ==
    /\ inferResp = NoResponse
    /\ \E file \in Uploads, reply \in CvReplies :
         /\ ValidateUpload(file).exc = "none"
         /\ inferReq' = file
         /\ cvReply' = reply
         /\ inferResp' = InferHandlers(InferBody(reply))
         /\ outbound' = [outbound EXCEPT !.cv = @ + CvPosts(reply) * RequestsPerPost]
    /\ UNCHANGED <<explainVars, ttsKeySet, chatVars, fnVars, storeVars>>

NextInfer == InferRejected \/ Infer

SpecInfer == InitInfer /\ [][NextInfer]_vars

(***************************************************************************)
(* The /chatbot routes and the Speech Gateway.                             *)
(***************************************************************************)
InitChatbot ==
    /\ apiKeySet = TRUE
    /\ explainReq = <<>>
    /\ reasoningReply = NoCall
    /\ explainResp = NoResponse
    /\ inferReq = NoUpload
    /\ cvReply = NoCvCall
    /\ inferResp = NoResponse
    /\ outbound = NoOutbound
    /\ ttsKeySet \in BOOLEAN
    /\ speakReq = NoSpeakRequest
    /\ narration = NoNarration
    /\ ttsCall = NoInvocation
    /\ ttsReply = NoTtsCall
    /\ ttsResult = None
    /\ speakResp = NoSpeakResponse
    /\ catalogResp = NoCatalogResponse
    /\ fnIn = <<>>
    /\ fnOut = <<>>
    /\ StoreIdle

ChatbotIdle ==
    /\ speakResp = NoSpeakResponse /\ catalogResp = NoCatalogResponse /\ ~ttsCall.invoked

\* one invocation of get_tts_base64: no request is sent without the key
Synthesized(text, voice_personality, reply) ==
    /\ ttsCall' = Invocation(text, voice_personality)
    /\ ttsReply' = reply
    /\ ttsResult' = get_tts_base64(ttsKeySet, reply)
    /\ outbound' = [outbound EXCEPT
                      !.tts = @ + (IF ttsKeySet THEN TtsPosts(reply) * RequestsPerPost ELSE 0)]

\* POST /chatbot/speak with a list the validation refuses
SpeakRejected ==
    /\ ChatbotIdle
    /\ \E request \in SpeakRequests :
         /\ ValidateDecisions(request.decisions).exc # "pending"
         /\ speakReq' = request
         /\ speakResp' = SpeakHandlers(ValidateDecisions(request.decisions))
    /\ UNCHANGED <<explainVars, inferVars, outbound, ttsKeySet, narration, speechVars,
                   catalogResp, fnVars, storeVars>>

\* POST /chatbot/speak: sanitize, compose both texts, synthesize, answer
Speak ==
    /\ ChatbotIdle
    /\ \E request \in SpeakRequests :
         /\ ValidateDecisions(request.decisions).exc = "pending"
         /\ LET voice_personality == CoercePersonality(request.voice_personality)
                template == TemplateOf(voice_personality)
            IN  \E decisions \in {SanitizeDecisions(request.decisions)},
                   greeting \in DOMAIN template.greeting, closing \in DOMAIN template.closing :
                \E conversational_text \in
                       {generate_conversational_text(decisions, voice_personality,
                            request.include_eco_tips, greeting, closing)},
                   fallback_text \in {generate_fallback_text(decisions)},
                   reply \in (IF ttsKeySet THEN SpeakTtsReplies ELSE {NoTtsCall}) :
                      /\ speakReq' = request
                      /\ narration' = Narration(conversational_text, fallback_text)
                      /\ Synthesized(conversational_text, voice_personality, reply)
                      /\ speakResp' = SpeakHandlers(
                             SpeakBody(get_tts_base64(ttsKeySet, reply), conversational_text,
                                       fallback_text, voice_personality))
    /\ UNCHANGED <<explainVars, inferVars, ttsKeySet, catalogResp, fnVars, storeVars>>

\* GET /chatbot/voices
GetVoices ==
    /\ ChatbotIdle
    /\ catalogResp' = CatalogHandlers("voices", VoicesBody,
                                      "Failed to retrieve voice personalities")
    /\ UNCHANGED <<explainVars, inferVars, outbound, ttsKeySet, speakReq, narration,
                   speechVars, speakResp, fnVars, storeVars>>

\* GET /chatbot/avatars
GetAvatars ==
    /\ ChatbotIdle
    /\ catalogResp' = CatalogHandlers("avatars", AvatarsBody,
                                      "Failed to retrieve avatar configurations")
    /\ UNCHANGED <<explainVars, inferVars, outbound, ttsKeySet, speakReq, narration,
                   speechVars, speakResp, fnVars, storeVars>>

NextChatbot == SpeakRejected \/ Speak \/ GetVoices \/ GetAvatars

SpecChatbot == InitChatbot /\ [][NextChatbot]_vars

\* the texts synthesize is handed when it is called on its own
TtsTexts == { Phrase(<<"Great!", " ", "I", " ", "found", " ", "1", " ", "item">>), <<>> }

\* synthesize called on its own, with any personality
Synthesize ==
    /\ ~ttsCall.invoked
    /\ \E text \in TtsTexts, voice_personality \in RequestPersonalities,
          reply \in (IF ttsKeySet THEN TtsReplies ELSE {NoTtsCall}) :
         Synthesized(text, voice_personality, reply)
    /\ UNCHANGED <<explainVars, inferVars, ttsKeySet, speakReq, narration, speakResp,
                   catalogResp, fnVars, storeVars>>

SpecTts == InitChatbot /\ [][Synthesize]_vars

(***************************************************************************)
(* The three gateways side by side: one invocation of one of them.         *)
(***************************************************************************)
InitGateways ==
    /\ apiKeySet \in BOOLEAN
    /\ explainReq = <<>>
    /\ reasoningReply = NoCall
    /\ explainResp = NoResponse
    /\ inferReq = NoUpload
    /\ cvReply = NoCvCall
    /\ inferResp = NoResponse
    /\ outbound = NoOutbound
    /\ ttsKeySet \in BOOLEAN
    /\ speakReq = NoSpeakRequest
    /\ narration = NoNarration
    /\ ttsCall = NoInvocation
    /\ ttsReply = NoTtsCall
    /\ ttsResult = None
    /\ speakResp = NoSpeakResponse
    /\ catalogResp = NoCatalogResponse
    /\ fnIn = <<>>
    /\ fnOut = <<>>
    /\ StoreIdle

NoInvocationYet ==
    /\ explainResp = NoResponse /\ inferResp = NoResponse /\ ~ttsCall.invoked

DetectionGateway == NoInvocationYet /\ Infer
ReasoningGateway == NoInvocationYet /\ (ExplainNoKey \/ Explain)
SpeechGateway == NoInvocationYet /\ Synthesize

NextGateways == DetectionGateway \/ ReasoningGateway \/ SpeechGateway

SpecGateways == InitGateways /\ [][NextGateways]_vars

(***************************************************************************)
(* sanitize_text and the composer as functions of their arguments.         *)
(***************************************************************************)
MaxPieces == 3     \* pieces of a text handed to sanitize_text

SanitizePieces ==
    { Run("a", 1), Run("a", 999), Run("<", 1), Run("'", 2), Run(" ", 1), Run(" ", 1000),
      Word("bin") }

NotApplied == [done |-> FALSE]

InitSanitize ==
    /\ apiKeySet = TRUE
    /\ explainReq = <<>>
    /\ reasoningReply = NoCall
    /\ explainResp = NoResponse
    /\ inferReq = NoUpload
    /\ cvReply = NoCvCall
    /\ inferResp = NoResponse
    /\ outbound = NoOutbound
    /\ ttsKeySet = TRUE
    /\ speakReq = NoSpeakRequest
    /\ narration = NoNarration
    /\ ttsCall = NoInvocation
    /\ ttsReply = NoTtsCall
    /\ ttsResult = None
    /\ speakResp = NoSpeakResponse
    /\ catalogResp = NoCatalogResponse
    /\ fnIn \in {Canon(t) : t \in SeqsUpTo(SanitizePieces, MaxPieces)}
    /\ fnOut = NotApplied
    /\ StoreIdle

\* sanitize_text applied to the text, and to its own result
ApplySanitize ==
    /\ ~fnOut.done
    /\ fnOut' = [done |-> TRUE, once |-> sanitize_text(fnIn),
                 twice |-> sanitize_text(sanitize_text(fnIn))]
    /\ UNCHANGED <<explainVars, inferVars, outbound, ttsKeySet, chatVars, fnIn, storeVars>>

SpecSanitize == InitSanitize /\ [][ApplySanitize]_vars

InitCompose ==
    /\ apiKeySet = TRUE
    /\ explainReq = <<>>
    /\ reasoningReply = NoCall
    /\ explainResp = NoResponse
    /\ inferReq = NoUpload
    /\ cvReply = NoCvCall
    /\ inferResp = NoResponse
    /\ outbound = NoOutbound
    /\ ttsKeySet = TRUE
    /\ speakReq = NoSpeakRequest
    /\ narration = NoNarration
    /\ ttsCall = NoInvocation
    /\ ttsReply = NoTtsCall
    /\ ttsResult = None
    /\ speakResp = NoSpeakResponse
    /\ catalogResp = NoCatalogResponse
    /\ fnIn \in SpeakRequests
    /\ fnOut = NotApplied
    /\ StoreIdle

\* compose: both texts of a list of decisions as it is handed over
Compose ==
    /\ ~fnOut.done
    /\ LET template == TemplateOf(fnIn.voice_personality)
       IN  \E greeting \in DOMAIN template.greeting, closing \in DOMAIN template.closing :
             fnOut' = [done |-> TRUE,
                       conversational_text |->
                           generate_conversational_text(fnIn.decisions, fnIn.voice_personality,
                               fnIn.include_eco_tips, greeting, closing),
                       fallback_text |-> generate_fallback_text(fnIn.decisions)]
    /\ UNCHANGED <<explainVars, inferVars, outbound, ttsKeySet, chatVars, fnIn, storeVars>>

SpecCompose == InitCompose /\ [][Compose]_vars

(***************************************************************************)
(* Properties of the Reasoning Gateway, checked under SpecExplain.         *)
(***************************************************************************)
ExplainReturned == explainResp.exc = "none"
ExplainFailed == explainResp.exc = "HTTPException"

\* the reasoning endpoint answered 200 with a body whose first choice has a message content
ContentReached ==
    /\ reasoningReply.transport = "ok" /\ reasoningReply.status = 200
    /\ reasoningReply.json /\ reasoningReply.choices = "filled" /\ reasoningReply.message

\* the message content parsed as a JSON list
ListParsed ==
    ContentReached /\ reasoningReply.content = "json" /\ reasoningReply.parsed = "list"

\* positions of the mappings in a list, and the rank of a position among them
Mappings(es) == {i \in DOMAIN es : es[i].t = "dict"}
RankIn(S, i) == Cardinality({j \in S : j <= i})

\* C1: a normal return of classify holds at least one decision, and when the
\* reply held no mapping (an empty list included) it is exactly the fallback
\* decision unknown / trash / Unable to determine... / Please check...
C1_AtLeastOneDecision ==
    ExplainReturned =>
        /\ Len(explainResp.items) >= 1
        /\ Mappings(reasoningReply.elems) = {} =>
             explainResp.items =
               << [label |-> "unknown", bin |-> "trash",
                   explanation |-> "Unable to determine proper disposal method",
                   eco_tip |-> "Please check local recycling guidelines"] >>

C1_Witness ==
    /\ ExplainReturned /\ ListParsed
    /\ reasoningReply.elems = <<>>
    /\ Len(explainResp.items) = 1 /\ explainResp.items[1].label = "unknown"

C3_BinIsEnumerated ==
    ExplainReturned =>
        \A i \in DOMAIN explainResp.items : explainResp.items[i].bin \in Bins

\* C4: message content that is not valid JSON gives 502 parse_error and no
\* decision; the fallback comes back only for content that is a JSON list
C4_NotJsonIsParseError ==
    /\ (ContentReached /\ reasoningReply.content = "text") =>
          /\ ExplainFailed
          /\ explainResp.status = 502 /\ explainResp.error = "parse_error"
          /\ explainResp.items = <<>>
    /\ (ExplainReturned /\ explainResp.items = <<FallbackDecision>>) => ListParsed

C4_Witness ==
    /\ ContentReached /\ reasoningReply.content = "text"
    /\ explainResp.status = 502 /\ explainResp.error = "parse_error"

\* C5: a 200 body with no choices key or an empty choices list reaches the
\* caller as 502 reasoning_error 'Invalid response structure from reasoning
\* service', not as parse_error
C5_StructuralErrorReachesCaller ==
    (/\ reasoningReply.transport = "ok" /\ reasoningReply.status = 200
     /\ reasoningReply.json /\ reasoningReply.choices \in {"absent", "empty"}) =>
        /\ ExplainFailed
        /\ explainResp.status = 502 /\ explainResp.error = "reasoning_error"
        /\ explainResp.message = "Invalid response structure from reasoning service"

\* C6: POST /explain answers 500 (config) for a missing key or a downstream
\* 401, 429 rate_limit for a downstream 429, 502 reasoning_error for a
\* downstream 5xx, 502 parse_error for content that is not a JSON list; the
\* client sees the status the gateway chose, and no decision list
C6_FailureStatusMapping ==
    /\ (~apiKeySet /\ explainResp # NoResponse) =>
          /\ ExplainFailed /\ explainResp.status = 500
          /\ explainResp.error \in {"config", "config_error"}
          /\ explainResp.items = <<>> /\ reasoningReply = NoCall
    /\ (reasoningReply.transport = "ok" /\ reasoningReply.status = 401) =>
          /\ ExplainFailed /\ explainResp.status = 500
          /\ explainResp.error \in {"config", "config_error"}
          /\ explainResp.items = <<>>
    /\ (reasoningReply.transport = "ok" /\ reasoningReply.status = 429) =>
          /\ ExplainFailed /\ explainResp.status = 429
          /\ explainResp.error = "rate_limit" /\ explainResp.items = <<>>
    /\ (reasoningReply.transport = "ok" /\ reasoningReply.status \in 500..599) =>
          /\ ExplainFailed /\ explainResp.status = 502
          /\ explainResp.error = "reasoning_error" /\ explainResp.items = <<>>
    /\ (ContentReached /\ ~ListParsed) =>
          /\ ExplainFailed /\ explainResp.status = 502
          /\ explainResp.error = "parse_error" /\ explainResp.items = <<>>

C6_Witness ==
    /\ reasoningReply.transport = "ok" /\ reasoningReply.status = 429
    /\ explainResp.status = 429 /\ explainResp.error = "rate_limit"

\* C7: for a reply that parsed as a list, classify returns normally; the
\* elements that are not mappings are skipped and the mappings give one
\* decision each, in the order of the list
C7_NonMappingsSkipped ==
    ListParsed =>
        /\ ExplainReturned
        /\ LET es == reasoningReply.elems
               M == Mappings(es)
           IN  M # {} =>
                 /\ Len(explainResp.items) = Cardinality(M)
                 /\ \A i \in M :
                      LET d == explainResp.items[RankIn(M, i)]
                      IN  /\ es[i].label.k = "str" => d.label = es[i].label.s
                          /\ es[i].bin.k = "str" => d.bin = es[i].bin.s
                          /\ es[i].explanation.k = "str" => d.explanation = es[i].explanation.s
                          /\ es[i].eco_tip.k = "str" => d.eco_tip = es[i].eco_tip.s

C7_Witness ==
    /\ ListParsed /\ ExplainReturned
    /\ Len(reasoningReply.elems) = 2
    /\ reasoningReply.elems[1].t # "dict" /\ reasoningReply.elems[2].t = "dict"
    /\ Len(explainResp.items) = 1 /\ explainResp.items[1].bin = "recycling"

(***************************************************************************)
(* Properties of the Detection Gateway, checked under SpecInfer.           *)
(***************************************************************************)
InferReturned == inferResp.exc = "none"
InferFailed == inferResp.exc = "HTTPException"

\* the detection endpoint answered 200 with a JSON object whose objects value is a list
ObjectsListed ==
    /\ cvReply.transport = "ok" /\ cvReply.status = 200 /\ cvReply.json
    /\ cvReply.data = "dict" /\ cvReply.objects = "list"

\* a detection object with a string label and a numeric confidence in [0,1]
WellFormed(obj) ==
    /\ obj.t = "dict"
    /\ obj.label.k = "str"
    /\ obj.confidence.k = "num" /\ obj.confidence.n >= 0 /\ obj.confidence.n <= 100

\* a detection object the code keeps: its confidence is missing, a number in
\* [0,1], or a string that reads as such a number
Kept(obj) ==
    /\ obj.t = "dict"
    /\ \/ obj.confidence.k = "absent"
       \/ obj.confidence.k = "num" /\ obj.confidence.n >= 0 /\ obj.confidence.n <= 100
       \/ obj.confidence.k = "str" /\ obj.confidence.s = "0.5"

\* C8 as stated: the returned items are exactly the well-formed objects, in
\* downstream order, label and confidence unchanged
C8_ExactlyWellFormed ==
    (ObjectsListed /\ InferReturned) =>
        LET es == cvReply.elems
            W == {i \in DOMAIN es : WellFormed(es[i])}
        IN  /\ Len(inferResp.items) = Cardinality(W)
            /\ \A i \in W :
                 inferResp.items[RankIn(W, i)] =
                   [label |-> es[i].label.s, confidence |-> es[i].confidence.n]

\* C8 amended: when detect returns, it has dropped exactly the objects whose
\* confidence is present and is no number (bad, null) or lies outside [0,1];
\* an object without label is kept as unknown, one without confidence as 0.0,
\* a numeric string is kept converted; the kept objects are in downstream
\* order with a string label and a numeric confidence unchanged
C8_DropsBadConfidenceOnly ==
    (ObjectsListed /\ InferReturned) =>
        LET es == cvReply.elems
            K == {i \in DOMAIN es : Kept(es[i])}
        IN  /\ Len(inferResp.items) = Cardinality(K)
            /\ \A i \in K :
                 LET d == inferResp.items[RankIn(K, i)]
                 IN  /\ es[i].label.k = "str" => d.label = es[i].label.s
                     /\ es[i].label.k = "absent" => d.label = "unknown"
                     /\ es[i].confidence.k = "num" => d.confidence = es[i].confidence.n
                     /\ es[i].confidence.k = "absent" => d.confidence = 0
                     /\ es[i].confidence.k = "str" => d.confidence = 50

C8_Witness ==
    /\ ObjectsListed /\ InferReturned
    /\ Len(cvReply.elems) = 2
    /\ cvReply.elems[1].confidence.k = "str" /\ cvReply.elems[1].confidence.s = "bad"
    /\ cvReply.elems[2].label.k = "absent"
    /\ Len(inferResp.items) = 1 /\ inferResp.items[1].label = "unknown"

\* C9: whatever the elements of a 200 reply's objects list are, POST /infer
\* answers 200
C9_NoElementIsFatal ==
    ObjectsListed => (InferReturned /\ inferResp.status = 200)

\* C10: with a valid upload, downstream 503 gives 503 service_unavailable,
\* 400 gives 400 validation_error, and every other downstream failure (other
\* status, transport failure, body that is not the expected JSON object)
\* gives 502 cv_error
C10_DownstreamFailureMapping ==
    (cvReply # NoCvCall) =>
        /\ (cvReply.transport = "ok" /\ cvReply.status = 503) =>
              (inferResp.status = 503 /\ inferResp.error = "service_unavailable")
        /\ (cvReply.transport = "ok" /\ cvReply.status = 400) =>
              (inferResp.status = 400 /\ inferResp.error = "validation_error")
        /\ (\/ cvReply.transport = "error"
            \/ cvReply.transport = "ok" /\ cvReply.status \notin {200, 400, 503}
            \/ cvReply.transport = "ok" /\ cvReply.status = 200 /\ ~cvReply.json
            \/ cvReply.transport = "ok" /\ cvReply.status = 200 /\ cvReply.json
                 /\ cvReply.data # "dict"
            \/ cvReply.transport = "ok" /\ cvReply.status = 200 /\ cvReply.json
                 /\ cvReply.data = "dict" /\ cvReply.objects = "other") =>
              (inferResp.status = 502 /\ inferResp.error = "cv_error")

(***************************************************************************)
(* Properties of the upload checks of POST /infer, checked under SpecInfer.*)
(***************************************************************************)
InferResponded == inferResp # NoResponse

\* the upload has no filename, a content type that is not image/*, an empty
\* payload or a payload larger than 10 MiB
UploadRefused(file) ==
    \/ file.filename = ""
    \/ file.content_type \notin ImageTypes
    \/ file.size = 0
    \/ file.size > 10 * 1024 * 1024

\* C11: when the upload has no filename, a content type that is not image/*,
\* an empty payload or a payload larger than 10 MiB, POST /infer makes no
\* call to the detection endpoint and answers 4xx validation_error
C11_RefusedUploadMakesNoCall ==
    (InferResponded /\ UploadRefused(inferReq)) =>
        /\ cvReply = NoCvCall
        /\ outbound.cv = 0
        /\ inferResp.exc = "HTTPException"
        /\ inferResp.status \in 400..499
        /\ inferResp.error = "validation_error"

\* an upload whose only fault is its size, one byte over the limit, refused with 413
C11_Witness ==
    /\ InferResponded
    /\ inferReq.filename # "" /\ inferReq.content_type \in ImageTypes
    /\ inferReq.size = MAX_FILE_SIZE + 1
    /\ cvReply = NoCvCall
    /\ inferResp.status = 413 /\ inferResp.error = "validation_error"

(***************************************************************************)
(* Properties of the three gateways, checked under SpecGateways.           *)
(***************************************************************************)
\* the outcome of the one invocation is a failure: transport error, a status
\* that is not 200, or a body that does not parse
DetectionFailed ==
    cvReply # NoCvCall /\ (cvReply.transport = "error" \/ cvReply.status # 200 \/ ~cvReply.json)
ReasoningFailed ==
    reasoningReply # NoCall /\ explainResp.exc = "HTTPException"
SpeechFailed ==
    ttsCall.invoked /\ ttsKeySet /\ (ttsReply.transport = "error" \/ ttsReply.status # 200)

B64Index(c) == (CHOOSE i \in DOMAIN B64Alphabet : B64Alphabet[i] = c) - 1

\* the bytes a padded base64 text stands for, read four characters at a time
RECURSIVE B64Decoded(_)
B64Decoded(chars) ==
    IF Len(chars) < 4 THEN <<>>
    ELSE LET a == B64Index(chars[1])
             b == B64Index(chars[2])
             first == a * 4 + (b \div 16)
         IN  IF chars[3] = "=" THEN <<first>>
             ELSE LET c == B64Index(chars[3])
                      second == (b % 16) * 16 + (c \div 4)
                  IN  IF chars[4] = "=" THEN <<first, second>>
                      ELSE <<first, second, (c % 4) * 64 + B64Index(chars[4])>>
                           \o B64Decoded(SubSeq(chars, 5, Len(chars)))

\* the key is missing, the endpoint could not be reached, it answered with a
\* status that is not 200, or its content cannot be encoded
SynthesisFailed ==
    \/ ~ttsKeySet
    \/ ttsReply.transport = "error"
    \/ ttsReply.status # 200
    \/ ~ttsReply.bytes

\* C13: get_tts_base64 never raises; it returns null for a missing key, a
\* reply that is not 200, a transport error and an encoding error; it returns
\* a value only for a 200 reply, and the value is data:audio/mpeg;base64,
\* followed by the base64 text of the audio bytes; an unrecognized
\* personality is served with the voice of friendly
C13_SynthesizeTotal ==
    ttsCall.invoked =>
        /\ ttsResult.exc = "none"
        /\ SynthesisFailed => ttsResult = None
        /\ ttsResult.some =>
              /\ ttsKeySet /\ ttsReply.transport = "ok" /\ ttsReply.status = 200
              /\ ttsResult.prefix = "data:audio/mpeg;base64,"
              /\ Len(ttsResult.data) = 4 * ((Len(ttsReply.audio) + 2) \div 3)
              /\ B64Decoded(ttsResult.data) = ttsReply.audio
        /\ ~SynthesisFailed => ttsResult.some
        /\ ttsCall.voice_personality \notin {"friendly", "enthusiastic", "educational"} =>
              ttsCall.voice_id = "s3TPKV1kjDlVtZbl4Ksh"

\* an unrecognized personality and a 200 reply of two bytes: the data URL of "Tf8="
C13_Witness ==
    /\ ttsCall.invoked /\ ttsCall.voice_personality = "grumpy"
    /\ ttsCall.voice_id = "s3TPKV1kjDlVtZbl4Ksh"
    /\ ttsReply.status = 200 /\ ttsReply.audio = <<77, 255>>
    /\ ttsResult.some /\ ttsResult.data = <<"T", "f", "8", "=">>

(***************************************************************************)
(* Properties of the /chatbot routes, checked under SpecChatbot.           *)
(***************************************************************************)
SpeakServed == speakResp # NoSpeakResponse

\* the request holds 1 to 10 decisions
DecisionsInRange == Len(speakReq.decisions) \in 1..10

\* C14: a request to POST /chatbot/speak with 1 to 10 decisions is answered
\* 200 with conversational_text and fallback_text whatever the outcome of the
\* synthesis, and audio_url is null exactly when the synthesis failed
C14_SpeakSurvivesSynthesisFailure ==
    (SpeakServed /\ DecisionsInRange) =>
        /\ speakResp.exc = "none" /\ speakResp.status = 200
        /\ narration.composed
        /\ speakResp.conversational_text = narration.conversational_text
        /\ speakResp.fallback_text = narration.fallback_text
        /\ TextLen(speakResp.conversational_text) > 0
        /\ TextLen(speakResp.fallback_text) > 0
        /\ ttsCall.invoked /\ ttsCall.text = speakResp.conversational_text
        /\ (speakResp.audio_url = None) <=> SynthesisFailed
        /\ ~SynthesisFailed => (speakResp.audio_url.some /\ speakResp.audio_url = ttsResult)

\* two decisions, the speech endpoint answers 500, the response is 200 without audio
C14_Witness ==
    /\ SpeakServed /\ Len(speakReq.decisions) = 2
    /\ ttsKeySet /\ ttsReply.transport = "ok" /\ ttsReply.status = 500
    /\ speakResp.status = 200 /\ speakResp.audio_url = None
    /\ TextLen(speakResp.fallback_text) > 0

\* C15: POST /chatbot/speak answers with status 400 when the decisions list
\* is empty and when it holds more than 10 decisions
C15_RefusedListsAnswered400 ==
    (SpeakServed /\ ~DecisionsInRange) => speakResp.status = 400

\* C16: while a request to POST /chatbot/speak with an empty list or with
\* more than 10 decisions is served, get_tts_base64 is not invoked and no
\* narration text is composed; the list is refused, not cut to its first
\* 10 decisions
C16_RefusedListsReachNothing ==
    (SpeakServed /\ ~DecisionsInRange) =>
        /\ ~ttsCall.invoked /\ ttsReply = NoTtsCall /\ outbound.tts = 0
        /\ ~narration.composed
        /\ speakResp.exc = "HTTPException" /\ speakResp.status \in 400..599
        /\ speakResp.conversational_text = <<>> /\ speakResp.audio_url = None

\* eleven decisions refused with the gateway untouched
C16_Witness ==
    /\ SpeakServed /\ Len(speakReq.decisions) = 11
    /\ speakResp.exc = "HTTPException"
    /\ ~ttsCall.invoked /\ ~narration.composed

\* C17: a request to POST /chatbot/speak with 1 to 10 decisions and a
\* voice_personality that is not friendly, enthusiastic or educational (null
\* included) is answered 200 with voice_personality friendly and the Speech
\* Gateway is called with friendly; a recognized value is echoed
C17_PersonalityCoerced ==
    (SpeakServed /\ DecisionsInRange) =>
        /\ speakResp.status = 200
        /\ speakReq.voice_personality \notin {"friendly", "enthusiastic", "educational"} =>
              /\ speakResp.voice_personality = "friendly"
              /\ ttsCall.invoked /\ ttsCall.voice_personality = "friendly"
              /\ ttsCall.voice_id = VOICE_PERSONALITIES["friendly"].voice_id
        /\ speakReq.voice_personality \in {"friendly", "enthusiastic", "educational"} =>
              /\ speakResp.voice_personality = speakReq.voice_personality
              /\ ttsCall.voice_personality = speakReq.voice_personality

\* a null voice_personality answered as friendly
C17_Witness ==
    /\ SpeakServed /\ DecisionsInRange
    /\ speakReq.voice_personality = "<null>"
    /\ speakResp.status = 200 /\ speakResp.voice_personality = "friendly"
    /\ ttsCall.voice_personality = "friendly"

\* C18: GET /chatbot/voices and GET /chatbot/avatars each answer 200 with
\* exactly three entries, one per personality friendly, enthusiastic and
\* educational, whose voice id and avatar are those of the table
C18_CatalogsListTheTable ==
    (catalogResp # NoCatalogResponse) =>
        /\ catalogResp.status = 200
        /\ Len(catalogResp.entries) = 3
        /\ {catalogResp.entries[i].personality_id : i \in DOMAIN catalogResp.entries}
              = {"friendly", "enthusiastic", "educational"}
        /\ \A i \in DOMAIN catalogResp.entries :
              LET entry == catalogResp.entries[i]
              IN  /\ entry.voice_id = VOICE_PERSONALITIES[entry.personality_id].voice_id
                  /\ entry.avatar = VOICE_PERSONALITIES[entry.personality_id].avatar

(***************************************************************************)
(* Properties of sanitize_text, checked under SpecSanitize.                *)
(***************************************************************************)
\* C19: sanitize_text is idempotent: sanitize_text(sanitize_text(t)) equals
\* sanitize_text(t) for every text t
C19_SanitizeIdempotent ==
    fnOut.done => fnOut.twice = fnOut.once

\* a text whose cut at 1000 characters ends in a blank: 999 letters, a blank
\* and a word are cut to the letters and the blank, and the blank is stripped
C19_Witness ==
    /\ fnOut.done
    /\ fnIn = <<Run("a", 999), Run(" ", 1), Word("bin")>>
    /\ fnOut.once = <<Run("a", 999)>>
    /\ fnOut.twice = fnOut.once

(***************************************************************************)
(* Properties of the two composed texts, checked under SpecCompose.        *)
(***************************************************************************)
\* the text holds none of < > " ' and is at most 1000 characters long
CleanText(t) ==
    /\ \A i \in DOMAIN t : ~(t[i].kind = "run" /\ t[i].s \in {"<", ">", "\"", "'"})
    /\ TextLen(t) <= 1000

\* C20: for every list of decisions, every personality and either value of
\* include_eco_tips, the conversational text and the fallback text hold none
\* of the characters < > " ' and are at most 1000 characters long
C20_ComposedTextsClean ==
    fnOut.done => (CleanText(fnOut.conversational_text) /\ CleanText(fnOut.fallback_text))

\* C20 as amended: the same for every list that is not empty; for the empty
\* list the two texts are the fixed sentences, returned as written, the
\* first of them with its apostrophe
C20_ComposedTextsCleanUnlessEmpty ==
    fnOut.done =>
        /\ fnIn.decisions # <<>> =>
              (CleanText(fnOut.conversational_text) /\ CleanText(fnOut.fallback_text))
        /\ fnIn.decisions = <<>> =>
              /\ fnOut.conversational_text = NoItemsText
              /\ fnOut.fallback_text = NoItemsFallback
              /\ ~CleanText(fnOut.conversational_text)

\* a label with angle brackets and an explanation of 1000 characters: both
\* texts are cut at 1000 characters and hold no bracket
C20_Witness ==
    /\ fnOut.done
    /\ Len(fnIn.decisions) = 1
    /\ fnIn.decisions[1].label = Phrase(<<"<", "b", ">", "lid">>)
    /\ TextLen(fnIn.decisions[1].explanation) = 1000
    /\ TextLen(fnOut.conversational_text) = 1000
    /\ TextLen(fnOut.fallback_text) = 1000
    /\ CleanText(fnOut.conversational_text) /\ CleanText(fnOut.fallback_text)

(***************************************************************************)
(* Properties of the fallback text, checked under SpecCompose.             *)
(***************************************************************************)
IsPipe(piece) == piece.kind = "lit" /\ piece.s = "|" /\ piece.n = 1

\* the places of a text where the delimiter " | " stands
Delimiters(t) ==
    {i \in DOMAIN t : /\ IsPipe(t[i]) /\ i > 1 /\ i < Len(t)
                      /\ IsBlank(t[i - 1]) /\ IsBlank(t[i + 1])}

\* one blank less at the end of a text, at the head of a text
DropLastBlank(t) ==
    IF t[Len(t)].n > 1 THEN SubSeq(t, 1, Len(t) - 1) \o <<Run(" ", t[Len(t)].n - 1)>>
    ELSE SubSeq(t, 1, Len(t) - 1)
DropFirstBlank(t) ==
    IF t[1].n > 1 THEN <<Run(" ", t[1].n - 1)>> \o Tail(t) ELSE Tail(t)

\* text.split(" | "): the leftmost delimiter first
RECURSIVE Split(_)
Split(t) ==
    IF Delimiters(t) = {} THEN <<t>>
    ELSE LET i == CHOOSE k \in Delimiters(t) : \A j \in Delimiters(t) : k <= j
         IN  <<DropLastBlank(SubSeq(t, 1, i - 1))>>
               \o Split(DropFirstBlank(SubSeq(t, i + 1, Len(t))))

\* the segments the decisions call for, in their order: per decision
\* "<label>: <bin> bin. <explanation>" and, when its eco_tip is not empty,
\* "Eco tip: <eco_tip>", each without the characters sanitize_text removes
\* and the whole without blanks at its two ends
RECURSIVE SegmentsCalledFor(_)
SegmentsCalledFor(decisions) ==
    IF decisions = <<>> THEN <<>>
    ELSE LET d == decisions[Len(decisions)]
         IN  SegmentsCalledFor(SubSeq(decisions, 1, Len(decisions) - 1))
               \o << d.label \o Phrase(<<":", " ">>) \o BinName(d.bin)
                       \o Phrase(<<" ", "bin.", " ">>) \o d.explanation >>
               \o (IF TextLen(d.eco_tip) > 0
                   THEN << Phrase(<<"Eco", " ", "tip:", " ">>) \o d.eco_tip >>
                   ELSE <<>>)

ExpectedSegments(decisions) ==
    LET parts == SegmentsCalledFor(decisions)
        clean == [i \in DOMAIN parts |-> Canon(RemoveBanned(parts[i]))]
    IN  [i \in DOMAIN clean |->
            IF i = 1 /\ i = Len(clean) THEN Strip(clean[i])
            ELSE IF i = 1 THEN LStrip(clean[i])
            ELSE IF i = Len(clean) THEN RStrip(clean[i])
            ELSE clean[i]]

HasPipe(t) == \E i \in DOMAIN t : t[i].kind = "lit" /\ t[i].s = "|"

\* no field of a decision holds the pipe character, and the segments joined
\* by " | ", the removed characters left out, are at most 1000 characters
FitsFallback(decisions) ==
    /\ \A i \in DOMAIN decisions :
          ~HasPipe(decisions[i].label) /\ ~HasPipe(decisions[i].explanation)
            /\ ~HasPipe(decisions[i].eco_tip) /\ ~HasPipe(BinName(decisions[i].bin))
    /\ LET parts == SegmentsCalledFor(decisions)
       IN  TextLen(RemoveBanned(Join(parts, <<>>))) + 3 * (Len(parts) - 1) <= 1000

\* C21: for every list of 1 to 10 decisions, fallback_text split on the pipe
\* delimiter has exactly one "<label>: <bin> bin. <explanation>" segment per
\* decision and one "Eco tip:" segment for each decision whose eco_tip is
\* not empty, in the order of the decisions
C21_OneSegmentPerDecision ==
    (fnOut.done /\ Len(fnIn.decisions) \in 1..10) =>
        Split(fnOut.fallback_text) = ExpectedSegments(fnIn.decisions)

\* C21 as amended: the same when no field holds the pipe character and the
\* joined segments fit in 1000 characters; a longer text is cut at 1000
\* characters, whatever segment the cut falls in
C21_OneSegmentPerDecisionWhenFits ==
    (fnOut.done /\ Len(fnIn.decisions) \in 1..10) =>
        /\ FitsFallback(fnIn.decisions) =>
              Split(fnOut.fallback_text) = ExpectedSegments(fnIn.decisions)
        /\ TextLen(fnOut.fallback_text) <= 1000

\* two decisions with an eco tip each, the second tip a lone quote: four
\* segments, the last one "Eco tip:"
C21_Witness ==
    /\ fnOut.done /\ Len(fnIn.decisions) = 2
    /\ fnIn.decisions[1].label = Phrase(<<"cup">>)
    /\ fnIn.decisions[2].label = Phrase(<<"can">>)
    /\ FitsFallback(fnIn.decisions)
    /\ Split(fnOut.fallback_text) =
          << Phrase(<<"cup", ":", " ", "recycling", " ", "bin.", " ", "rinse", " ", "it">>),
             Phrase(<<"Eco", " ", "tip:", " ", "reuse", " ", "it">>),
             Phrase(<<"can", ":", " ", "trash", " ", "bin.", " ", "metal">>),
             Phrase(<<"Eco", " ", "tip:">>) >>

(***************************************************************************)
(* The persistence routes, each under a specification of its own.          *)
(***************************************************************************)
pipelineVars == <<explainVars, inferVars, outbound, ttsKeySet, chatVars, fnVars>>

\* no request of the image pipeline served
PipelineIdle ==
    /\ apiKeySet = TRUE
    /\ explainReq = <<>>
    /\ reasoningReply = NoCall
    /\ explainResp = NoResponse
    /\ inferReq = NoUpload
    /\ cvReply = NoCvCall
    /\ inferResp = NoResponse
    /\ outbound = NoOutbound
    /\ ttsKeySet = TRUE
    /\ speakReq = NoSpeakRequest
    /\ narration = NoNarration
    /\ ttsCall = NoInvocation
    /\ ttsReply = NoTtsCall
    /\ ttsResult = None
    /\ speakResp = NoSpeakResponse
    /\ catalogResp = NoCatalogResponse
    /\ fnIn = <<>>
    /\ fnOut = NotApplied

InitEvent ==
    /\ PipelineIdle
    /\ event = NoEvent
    /\ sortEvents = <<>>
    /\ policies = NoPolicies
    /\ seedRuns = NoSeedRuns
    /\ profile = NoProfile
    /\ board = NoBoard
    /\ trends = NoTrends

\* POST /event arrives and insert_sort_event runs the insert: the store
\* keeps the row and answers with it, or the call raises
WriteRow ==
    /\ event.pc \in {"idle", "done"}
    /\ Len(sortEvents) < MaxEvents
    /\ \E req \in EventRequests, outcome \in {"ok", "error"} :
        IF outcome = "ok"
        THEN /\ sortEvents' = Append(sortEvents, SortEventRow(Len(sortEvents) + 1, req))
             /\ event' = [NoEvent EXCEPT !.pc = "written", !.req = req, !.write = "ok",
                                         !.id = Len(sortEvents) + 1]
        ELSE /\ sortEvents' = sortEvents
             /\ event' = [NoEvent EXCEPT !.pc = "done", !.req = req, !.write = "error",
                                         !.resp = LogEventHandlers(EventRaised("APIError"))]
    /\ UNCHANGED <<pipelineVars, seedVars, profile, board, trends>>

\* await self.check_user_achievements(payload.user_id): the rpc is sent
StartCheck ==
    /\ event.pc = "written"
    /\ ShouldCheck(event.req)
    /\ event' = [event EXCEPT !.pc = "checking", !.checks = @ + 1]
    /\ UNCHANGED <<pipelineVars, sortEvents, seedVars, profile, board, trends>>

\* the store answers the rpc, or the call raises
CheckReturns ==
    /\ event.pc = "checking"
    /\ \E outcome \in {"ok", "error"} :
        event' = [event EXCEPT !.pc = "checked", !.rpc = outcome,
                               !.check = CheckHandlers(outcome)]
    /\ UNCHANGED <<pipelineVars, sortEvents, seedVars, profile, board, trends>>

\* insert_sort_event returns and log_event answers
ReturnEvent ==
    /\ \/ event.pc = "checked"
       \/ event.pc = "written" /\ ~ShouldCheck(event.req)
    /\ event' = [event EXCEPT !.pc = "done",
                              !.resp = LogEventHandlers(InsertOutcome(event.id, event.check))]
    /\ UNCHANGED <<pipelineVars, sortEvents, seedVars, profile, board, trends>>

NextEvent == WriteRow \/ StartCheck \/ CheckReturns \/ ReturnEvent

SpecEvent == InitEvent /\ [][NextEvent]_vars

\* the event loop runs every step of the handler that is ready; nothing
\* makes the store answer the rpc
SpecEventLive ==
    InitEvent /\ [][NextEvent]_vars /\ WF_vars(StartCheck) /\ WF_vars(ReturnEvent)

\* C22: when the row write succeeded, POST /event answers with the id the
\* store assigned to the row, whether the achievement check succeeded or
\* failed
C22_IdReturnedWhateverTheCheck ==
    (event.pc = "done" /\ event.write = "ok") =>
        /\ Len(sortEvents) > 0
        /\ sortEvents[Len(sortEvents)].user_id = event.req.user_id
        /\ event.resp = EventOk(sortEvents[Len(sortEvents)].id)

\* a request with user_id whose check failed at the store, answered
C22_Witness ==
    /\ event.pc = "done"
    /\ event.write = "ok"
    /\ event.rpc = "error"
    /\ event.resp = EventOk(2)

\* C23: once the row is written the response follows, whether or not the
\* achievement check ever completes
C23_ResponseNotBlockedByCheck ==
    (event.write = "ok") ~> (event.pc = "done")

\* C27: the achievement check is invoked at most once per event, only after
\* a successful row write and only for an event with user_id, and is not
\* invoked again after it failed; a failed row write invokes no check and
\* its error reaches the caller
C27_CheckOnceAfterWrite ==
    /\ event.checks <= 1
    /\ event.checks = 1 => (event.write = "ok" /\ event.req.user_id # "")
    /\ event.write = "error" =>
          /\ event.checks = 0
          /\ event.pc = "done"
          /\ event.resp = EventError(500, "server_error")
    /\ (event.pc = "done" /\ event.write = "ok" /\ event.req.user_id # "") => event.checks = 1

\* a check that failed, and the request finished with the one invocation
C27_Witness ==
    /\ event.pc = "done"
    /\ event.rpc = "error"
    /\ event.checks = 1
    /\ event.req.user_id = "u1"

InitSeed ==
    /\ PipelineIdle
    /\ event = NoEvent
    /\ sortEvents = <<>>
    /\ policies \in [SeedZips -> {"none", "seed", "other"}]
    /\ seedRuns = NoSeedRuns
    /\ profile = NoProfile
    /\ board = NoBoard
    /\ trends = NoTrends

\* the select of the run: the rows of the seed ZIPs, or the call raises
SeedCheck(r) ==
    /\ seedRuns[r].pc = "idle"
    /\ \E outcome \in {"ok", "error"} :
        seedRuns' = [seedRuns EXCEPT ![r] =
            IF outcome = "ok"
            THEN [@ EXCEPT !.pc = "checked", !.found = FoundZips(policies)]
            ELSE [@ EXCEPT !.pc = "done", !.error = TRUE, !.startup = SeedHandlers(outcome)]]
    /\ UNCHANGED <<pipelineVars, eventVars, policies, profile, board, trends>>

\* if seeds: upsert(seeds, on_conflict="zip"), or the call raises; with no
\* seeds the run returns without a call
SeedUpsert(r) ==
    /\ seedRuns[r].pc = "checked"
    /\ \E seeds \in {SeedsFor(seedRuns[r].found)}, outcome \in {"ok", "error"} :
        IF seeds = {} \/ outcome = "error"
        THEN /\ policies' = policies
             /\ seedRuns' = [seedRuns EXCEPT ![r] =
                    [@ EXCEPT !.pc = "done", !.error = (seeds # {}),
                              !.startup = SeedHandlers(IF seeds = {} THEN "ok" ELSE outcome)]]
        ELSE /\ policies' = Upsert(policies, seeds)
             /\ seedRuns' = [seedRuns EXCEPT ![r] =
                    [@ EXCEPT !.pc = "done", !.wrote = seeds,
                              !.overwrote = {z \in seeds : policies[z] # "none"},
                              !.startup = SeedHandlers(outcome)]]
    /\ UNCHANGED <<pipelineVars, eventVars, profile, board, trends>>

\* another writer of the policies table puts its row for a seed ZIP
OtherWrite ==
    /\ \E z \in SeedZips :
        /\ policies[z] # "other"
        /\ policies' = [policies EXCEPT ![z] = "other"]
    /\ UNCHANGED <<pipelineVars, eventVars, seedRuns, profile, board, trends>>

NextSeed == (\E r \in SeedRunIds : SeedCheck(r)) \/ (\E r \in SeedRunIds : SeedUpsert(r)) \/ OtherWrite

SpecSeed == InitSeed /\ [][NextSeed]_vars

\* C24: a run of ensure_seed_policies writes no row for a seed ZIP whose row
\* its check found; after a run without store error both seed ZIPs have a
\* row; a run that finds both rows writes nothing; and startup completes
\* after the run whether or not the store raised
C24_SeedsOnlyTheMissing ==
    \A r \in SeedRunIds :
        /\ seedRuns[r].wrote \cap seedRuns[r].found = {}
        /\ seedRuns[r].found = SeedZips => seedRuns[r].wrote = {}
        /\ seedRuns[r].pc = "done" =>
              /\ seedRuns[r].startup = "complete"
              /\ ~seedRuns[r].error => \A z \in SeedZips : policies[z] # "none"

\* a first run that wrote both rows, then a second run that found both and
\* wrote nothing
C24_Witness ==
    /\ seedRuns[1].pc = "done" /\ seedRuns[1].wrote = SeedZips
    /\ seedRuns[2].pc = "done" /\ seedRuns[2].found = SeedZips /\ seedRuns[2].wrote = {}
    /\ ~seedRuns[2].error
    /\ \A z \in SeedZips : policies[z] = "seed"

\* C28: no run replaces with seed data a row that was written between its
\* existence check and its upsert
C28_NoRowOverwritten ==
    \A r \in SeedRunIds : seedRuns[r].overwrote = {}

InitProfile ==
    /\ PipelineIdle
    /\ event = NoEvent
    /\ sortEvents = <<>>
    /\ policies = NoPolicies
    /\ seedRuns = NoSeedRuns
    /\ profile = NoProfile
    /\ board = NoBoard
    /\ trends = NoTrends

\* GET /users/profile/{user_id} is served
ServeProfile ==
    /\ profile.user_id = ""
    /\ \E user_id \in ProfileUsers, reply \in StoreReplies :
        profile' = [user_id |-> user_id, reply |-> reply,
                    user |-> IF reply.kind = "unconfigured" THEN "unset" ELSE GetUser(reply),
                    resp |-> GetUserProfile(reply)]
    /\ UNCHANGED <<pipelineVars, eventVars, seedVars, board, trends>>

SpecProfile == InitProfile /\ [][ServeProfile]_vars

\* C25: when the users table holds no row for the id, get_user returns None
\* without raising, and GET /users/profile/{user_id} answers 404 with
\* "User not found"
C25_NoRowIsNotFound ==
    (profile.user_id # "" /\ profile.reply.kind = "empty") =>
        /\ profile.user = "None"
        /\ profile.resp.exc = "HTTPException"
        /\ profile.resp.status = 404
        /\ profile.resp.detail = "User not found"

\* a lookup that found no row, answered
C25_Witness ==
    /\ profile.user_id = "u2"
    /\ profile.reply = NoRow
    /\ profile.resp.status = 404

\* C26: when the query of the users table raises, GET
\* /users/profile/{user_id} answers 500 with "Failed to retrieve user
\* profile", which is not the answer given for a user that does not exist
C26_QueryFailureIs500 ==
    (profile.user_id # "" /\ profile.reply.kind = "error") =>
        /\ profile.resp.status = 500
        /\ profile.resp.detail = "Failed to retrieve user profile"
        /\ profile.resp # GetUserProfile(NoRow)

InitBoard ==
    /\ PipelineIdle
    /\ event = NoEvent
    /\ sortEvents = <<>>
    /\ policies = NoPolicies
    /\ seedRuns = NoSeedRuns
    /\ profile = NoProfile
    /\ board = NoBoard
    /\ trends = NoTrends

\* GET /analytics/leaderboard is served: the select returns the rows of the
\* window, or raises; known holds the users get_user finds
ServeLeaderboard ==
    /\ board.req = NoBoardRequest
    /\ \E limit \in BoardLimits, time_period \in BoardPeriods,
          events \in SeqsUpTo(BoardRows, MaxBoardEvents), known \in {{}, {"u1"}},
          outcome \in {"ok", "error"} :
        /\ outcome = "error" => (events = <<>> /\ known = {} /\ limit = 0)
        /\ board' = [req |-> [limit |-> limit, time_period |-> time_period],
                     events |-> events, known |-> known,
                     resp |-> IF outcome = "ok"
                              THEN Returned(Leaderboard(events, limit, known))
                              ELSE HTTPException(500, "", "Failed to retrieve leaderboard")]
    /\ UNCHANGED <<pipelineVars, eventVars, seedVars, profile, trends>>

SpecBoard == InitBoard /\ [][ServeLeaderboard]_vars

\* the users that have an event in the window
BoardUsersOf(events) == {events[i].user_id : i \in 1..Len(events)} \ {""}

\* the events of a user with one of the decisions
EventsOf(events, user_id, decisions) ==
    Cardinality({i \in 1..Len(events) :
                    events[i].user_id = user_id /\ events[i].decision \in decisions})

AllDecisions == {"recycling", "compost", "landfill"}

\* 10 per recycling event, 8 per compost event, 2 per other event
PointsCalledFor(events, user_id) ==
    10 * EventsOf(events, user_id, {"recycling"})
    + 8 * EventsOf(events, user_id, {"compost"})
    + 2 * EventsOf(events, user_id, AllDecisions \ {"recycling", "compost"})

\* the number of entries [:limit] leaves of n
KeptOf(n, limit) ==
    CASE limit >= n -> n
      [] limit >= 0 -> limit
      [] n + limit > 0 -> n + limit
      [] OTHER -> 0

\* C29: for a time_period other than "all" the leaderboard has no entry for
\* events without user_id and one entry per user at most; an entry holds the
\* number of the user's events and 10, 8 or 2 points per event by decision;
\* the entries are in descending order of points, cut to limit (the users
\* left out have no more points than those kept), and rank_position counts
\* 1, 2, ..., n along the list
C29_LeaderboardOfWindow ==
    (board.req # NoBoardRequest /\ board.resp.exc = "none") =>
        LET entries == board.resp.items
            events == board.events
            users == BoardUsersOf(events)
        IN  /\ \A i \in 1..Len(entries) :
                /\ entries[i].user_id \in users
                /\ entries[i].total_items_sorted = EventsOf(events, entries[i].user_id, AllDecisions)
                /\ entries[i].total_points = PointsCalledFor(events, entries[i].user_id)
                /\ entries[i].rank_position = i
            /\ \A i, j \in 1..Len(entries) :
                i < j => /\ entries[i].total_points >= entries[j].total_points
                         /\ entries[i].user_id # entries[j].user_id
            /\ Len(entries) = KeptOf(Cardinality(users), board.req.limit)
            /\ board.req.limit >= 0 => Len(entries) <= board.req.limit
            /\ \A u \in users :
                (\A i \in 1..Len(entries) : entries[i].user_id # u) =>
                    \A i \in 1..Len(entries) :
                        entries[i].total_points >= PointsCalledFor(events, u)

\* u1 with a landfill event before u2 with a recycling event, and an event
\* without user_id: u2 leads with 10 points, u1 follows with 2
C29_Witness ==
    /\ board.req.limit = 2
    /\ Len(board.events) = 3
    /\ board.events[1].user_id = "u1" /\ board.events[1].decision = "landfill"
    /\ board.events[2].user_id = "u2" /\ board.events[2].decision = "recycling"
    /\ board.events[3].user_id = ""
    /\ Len(board.resp.items) = 2
    /\ board.resp.items[1].user_id = "u2" /\ board.resp.items[1].total_points = 10
    /\ board.resp.items[1].rank_position = 1
    /\ board.resp.items[2].user_id = "u1" /\ board.resp.items[2].total_points = 2
    /\ board.resp.items[2].rank_position = 2

InitTrends ==
    /\ PipelineIdle
    /\ event = NoEvent
    /\ sortEvents = <<>>
    /\ policies = NoPolicies
    /\ seedRuns = NoSeedRuns
    /\ profile = NoProfile
    /\ board = NoBoard
    /\ trends = NoTrends

\* GET /analytics/trends is served over the table, or the store raises
ServeTrends ==
    /\ trends.status = 0
    /\ \E req \in TrendRequests, table \in SeqsUpTo(TrendRows, MaxTrendRows),
          outcome \in {"ok", "error"} :
        /\ outcome = "error" => table = <<>>
        /\ trends' = [req |-> req, table |-> table,
                      status |-> IF outcome = "ok" THEN 200 ELSE 500,
                      body |-> IF outcome = "ok" THEN AnalyticsTrends(table, req)
                               ELSE NoTrendsBody]
    /\ UNCHANGED <<pipelineVars, eventVars, seedVars, profile, board>>

SpecTrends == InitTrends /\ [][ServeTrends]_vars

\* the rows of the table in a window that pass the filters of the request
Population(table, req, window) ==
    {i \in 1..Len(table) :
        /\ table[i].window = window
        /\ req.zip_code # "" => table[i].zip = req.zip_code
        /\ req.user_id # "" => table[i].user_id = req.user_id}

\* C30: the previous value of items_trend is the number of rows of the
\* previous period that pass the zip_code and user_id filters of the request,
\* as the current value is for the current period, and change_percentage is
\* 0 when the previous value is 0
C30_SamePopulationBothSides ==
    (trends.status = 200 /\ trends.body.given) =>
        /\ trends.body.items_trend.current =
              Cardinality(Population(trends.table, trends.req, "current"))
        /\ trends.body.items_trend.previous =
              Cardinality(Population(trends.table, trends.req, "previous"))
        /\ trends.body.items_trend.previous = 0 =>
              trends.body.items_trend.change_percentage = NoChange
        /\ trends.body.co2_trend.previous = 0 =>
              trends.body.co2_trend.change_percentage = NoChange

\* what the handler does keep: the current side counts the filtered rows,
\* and change_percentage is 0 when the previous value is 0
ZeroPreviousGivesZeroChange ==
    (trends.status = 200 /\ trends.body.given) =>
        /\ trends.body.items_trend.current =
              Cardinality(Population(trends.table, trends.req, "current"))
        /\ trends.body.items_trend.previous = 0 =>
              trends.body.items_trend.change_percentage = NoChange
        /\ trends.body.co2_trend.previous = 0 =>
              trends.body.co2_trend.change_percentage = NoChange

====
